---------------------------- MODULE Spec2Model ----------------------------
(***************************************************************************)
(* A model of check-pad-web: the browser-log correlation pipeline          *)
(* (src/src/api_interceptor.py), the traffic classifier and response       *)
(* validator (src/src/response_validator.py), the endpoint aggregator      *)
(* (src/src/error_summarizer.py), the query surface                        *)
(* (src/src/web_server.py) and the monitor threads (src/main.py).          *)
(*                                                                         *)
(* Text is modelled as a sequence of lexical tokens: a URL                 *)
(* "https://host/api/x?y=1" is <<"https", ":", "//", "host", "/", "api",   *)
(* "/", "x", "?", "y=1">>.  Every substring test, regular expression and   *)
(* parse of the source is computed on these tokens.  Non-ASCII message     *)
(* literals of the source are written by their code points.                *)
(***************************************************************************)
EXTENDS Integers, Sequences, FiniteSets, TLC

VARIABLES
    response_data,          \* APIInterceptor.response_data: requestId -> entry
    processed_request_ids,  \* APIInterceptor.processed_request_ids
    errors,                 \* ErrorSummarizer.errors, in insertion order
    logs,                   \* the entries of the current batch not yet iterated
    pc,                     \* position of the sequential pipeline
    did,                    \* what the last handled log entry made the pipeline do
    recorded,               \* history: the add_error calls made, in arrival order
    call,                   \* the arguments of a validate_response call
    verdict,                \* its result
    cls,                    \* the result of _is_api_request on the same arguments
    monitoring,             \* APIInterceptor.monitoring
    thread,                 \* per polling thread: its position and its locals
    reader,                 \* the query handler thread: its position and locals
    browser_log,            \* the driver's performance log, not yet fetched
    emitted,                \* how many entries the browser has written
    orphans,                \* ErrorRecord objects replaced in the dict
    report,                 \* the content of the report last generated
    driver,                 \* APIMonitor.driver: none, running or quit
    interceptor,            \* whether APIMonitor.interceptor is set
    cleanup                 \* the cleanup calls in progress, innermost first

pipeVars == <<response_data, processed_request_ids, logs, pc, did>>
aggVars  == <<errors, recorded>>
valVars  == <<call, verdict, cls>>
seqVars  == <<logs, pc, did>>
concVars == <<monitoring, thread, reader, browser_log, emitted, orphans>>
lifeVars == <<report, driver, interceptor, cleanup>>
vars == <<response_data, processed_request_ids, errors, logs, pc, did,
          recorded, call, verdict, cls, monitoring, thread, reader,
          browser_log, emitted, orphans, report, driver, interceptor,
          cleanup>>

-----------------------------------------------------------------------------
(* Text helpers.                                                           *)

\* str.lower() on one token (the tokens of the model that have upper case).
Lower(t) ==
    CASE t = "API"   -> "api"
      [] t = "JS"    -> "js"
      [] t = "HTML"  -> "html"
      [] t = "JSON"  -> "json"
      [] t = "Application" -> "application"
      [] OTHER -> t

\* str.lower() on a text.
LowerSeq(s) == [i \in 1..Len(s) |-> Lower(s[i])]

\* Whether text s has sub at position i.
MatchAt(sub, s, i) ==
    /\ i + Len(sub) - 1 <= Len(s)
    /\ \A k \in 1..Len(sub) : s[i + k - 1] = sub[k]

\* `sub in s`: the left-to-right scan of str.__contains__.
RECURSIVE FindFrom(_, _, _)
FindFrom(sub, s, i) ==
    IF i + Len(sub) - 1 > Len(s) THEN FALSE
    ELSE IF MatchAt(sub, s, i) THEN TRUE
    ELSE FindFrom(sub, s, i + 1)

Contains(sub, s) == FindFrom(sub, s, 1)

\* s.endswith(sub)
EndsWith(s, sub) ==
    /\ Len(sub) <= Len(s)
    /\ SubSeq(s, Len(s) - Len(sub) + 1, Len(s)) = sub

\* any(p in s for p in list)
RECURSIVE AnyContained(_, _)
AnyContained(list, s) ==
    IF list = <<>> THEN FALSE
    ELSE IF Contains(Head(list), s) THEN TRUE
    ELSE AnyContained(Tail(list), s)

-----------------------------------------------------------------------------
(* ResponseValidator._is_api_request                                       *)

\* The extensions of the first pattern of NON_API_PATTERNS.
StaticExts ==
    {"js", "css", "png", "jpg", "jpeg", "gif", "ico", "svg", "woff", "woff2",
     "ttf", "eot", "pdf", "zip", "mp4", "mp3", "webp", "avif"}

\* NON_API_PATTERNS: the extension pattern \.(js|css|...)(\?|$|#), then the
\* four literal patterns.
NON_API_PATTERNS ==
    << [kind |-> "ext", lit |-> <<>>],
       [kind |-> "lit", lit |-> <<"data", ":", "image", "/">>],
       [kind |-> "lit", lit |-> <<"data", ":", "text", "/">>],
       [kind |-> "lit", lit |-> <<"chrome-extension", ":", "//">>],
       [kind |-> "lit", lit |-> <<"moz-extension", ":", "//">>] >>

\* The extension pattern at position i: a dot, an extension, then "?", "#" or
\* the end of the text.
ExtAt(s, i) ==
    /\ i + 1 <= Len(s)
    /\ s[i] = "."
    /\ s[i + 1] \in StaticExts
    /\ (i + 1 = Len(s) \/ s[i + 2] \in {"?", "#"})

RECURSIVE ExtFrom(_, _)
ExtFrom(s, i) ==
    IF i + 1 > Len(s) THEN FALSE
    ELSE IF ExtAt(s, i) THEN TRUE
    ELSE ExtFrom(s, i + 1)

\* re.search(pattern, url, re.IGNORECASE)
re_search(pattern, url) ==
    IF pattern.kind = "ext" THEN ExtFrom(LowerSeq(url), 1)
    ELSE Contains(pattern.lit, LowerSeq(url))

\* for pattern in NON_API_PATTERNS: if re.search(...): return False
RECURSIVE AnyPattern(_, _)
AnyPattern(patterns, url) ==
    IF patterns = <<>> THEN FALSE
    ELSE IF re_search(Head(patterns), url) THEN TRUE
    ELSE AnyPattern(Tail(patterns), url)

\* The static MIME categories of line 59-60.
StaticMimes ==
    << <<"text", "/", "css">>, <<"text", "/", "javascript">>,
       <<"application", "/", "javascript">>, <<"image", "/">>,
       <<"font", "/">>, <<"video", "/">>, <<"audio", "/">>,
       <<"application", "/", "pdf">> >>

api_indicators ==
    << <<"/", "api", "/">>, <<"/", "rest", "/">>, <<"/", "graphql">>,
       <<"/", "rpc", "/">>, <<"/", "service", "/">>, <<"/", "v1", "/">>,
       <<"/", "v2", "/">>, <<"/", "v3", "/">> >>

\* ByUrlShape with the page-suffix rule tried before the API indicators.
ByUrlShape_SuffixFirst(url) ==
    LET url_lower == LowerSeq(url) IN
    IF \/ EndsWith(url_lower, <<"/">>)
       \/ EndsWith(url_lower, <<".", "html">>)
       \/ EndsWith(url_lower, <<".", "htm">>) THEN FALSE
    ELSE TRUE

\* The tail of _is_api_request, after the pattern loop and the MIME checks.
ByUrlShape(url) ==
    LET url_lower == LowerSeq(url) IN
    IF AnyContained(api_indicators, url_lower) THEN TRUE
    ELSE IF \/ EndsWith(url_lower, <<"/">>)
            \/ EndsWith(url_lower, <<".", "html">>)
            \/ EndsWith(url_lower, <<".", "htm">>) THEN FALSE
    ELSE TRUE

\* The MIME block of _is_api_request; an absent or empty MIME type is <<>>.
ByMime(url, mime_type) ==
    IF mime_type # <<>> THEN
        LET mime_lower == LowerSeq(mime_type) IN
        IF Contains(<<"json">>, mime_lower) THEN TRUE
        ELSE IF AnyContained(StaticMimes, mime_lower) THEN FALSE
        ELSE ByUrlShape(url)
    ELSE ByUrlShape(url)

_is_api_request(url, mime_type) ==
    IF AnyPattern(NON_API_PATTERNS, url) THEN FALSE
    ELSE ByMime(url, mime_type)

-----------------------------------------------------------------------------
(* The URLs and MIME types of the model.                                   *)

UrlUsers   == <<"https", ":", "//", "host", "/", "api", "/", "v1", "/", "users",
                "?", "x=1", "#", "frag">>
UrlUsersB  == <<"http", ":", "//", "other", "/", "api", "/", "v1", "/", "users">>
UrlOrders  == <<"/", "api", "/", "orders">>
UrlPage    == <<"https", ":", "//", "host", "/", "page", "/">>
UrlWeird   == <<"https", ":", "//", "host", "/", "weird">>
UrlScript  == <<"https", ":", "//", "host", "/", "static", "/", "app", ".", "js">>
UrlApiJs   == <<"https", ":", "//", "host", "/", "API", "/", "app", ".", "JS",
                "?", "v=2">>
UrlIndex   == <<"https", ":", "//", "host", "/", "index", ".", "html">>
UrlApiDoc  == <<"https", ":", "//", "host", "/", "API", "/", "docs", ".", "HTML">>
UrlApiRoot == <<"https", ":", "//", "host", "/", "api", "/">>
UrlGraphql == <<"https", ":", "//", "host", "/", "graphql">>
UrlJsDir   == <<"https", ":", "//", "host", "/", "file", ".", "js", "/", "meta">>
UrlData    == <<"data", ":", "image", "/", "png">>
UrlExt     == <<"chrome-extension", ":", "//", "abc", "/", "api", "/", "x">>
UrlBadHost == <<"http", ":", "//", "[", "bad", "/", "x", "?", "q=1">>
UrlJsSlash == <<"https", ":", "//", "host", "/", "app", ".", "js", "?", "next=", "/">>

Urls == {UrlUsers, UrlOrders, UrlPage, UrlWeird, UrlScript, UrlApiJs, UrlIndex,
         UrlApiDoc, UrlApiRoot, UrlJsDir, UrlData, UrlExt, UrlJsSlash,
         UrlUsersB, UrlBadHost}

NoMime    == <<>>
MimeJson  == <<"application", "/", "json">>
MimeJSON  == <<"Application", "/", "JSON">>
MimeHtml  == <<"text", "/", "html">>
MimePlain == <<"text", "/", "plain">>
MimePng   == <<"image", "/", "png">>
MimeCss   == <<"text", "/", "css">>
MimeImgJson == <<"image", "/", "svg", "+", "json">>

Mimes == {NoMime, MimeJson, MimeJSON, MimePlain, MimePng, MimeImgJson}

-----------------------------------------------------------------------------
(* Response bodies and json.loads.                                         *)
(*                                                                         *)
(* A body is [pre, kind, ty, obj]: pre is its leading run of whitespace    *)
(* ("ws") and byte-order-mark ("bom") characters; kind is what follows:    *)
(*   "empty"     nothing                                                   *)
(*   "object"    a JSON object, its top-level fields in obj                *)
(*   "array"     a JSON array                                              *)
(*   "scalar"    another JSON value, of Python type ty                     *)
(*   "html"      text starting with "<"                                    *)
(*   "text"      text that starts no JSON value ("not json")               *)
(*   "badobj"    "{bad": a brace followed by no property name              *)
(*   "objnoval"  "{"a":}": an object with a value missing                  *)
(*   "extra"     a JSON object followed by more text                       *)
(* A JSON field value is [t, s]: its type and its str() text.              *)

NoFields == [f \in {} |-> [t |-> "str", s |-> ""]]
Body(pre, kind, ty, obj) == [pre |-> pre, kind |-> kind, ty |-> ty, obj |-> obj]
EmptyBody == Body(<<>>, "empty", "", NoFields)
JStr(s) == [t |-> "str", s |-> s]
JNum(s) == [t |-> "num", s |-> s]

\* `not response_body`
IsEmptyStr(b) == b.pre = <<>> /\ b.kind = "empty"

\* The first character of what follows the leading run.
FirstChar(kind) ==
    CASE kind \in {"object", "badobj", "objnoval", "extra"} -> "{"
      [] kind = "array" -> "["
      [] kind = "html" -> "<"
      [] kind = "empty" -> ""
      [] OTHER -> "other"

\* str.strip() drops the whitespace at both ends; a byte-order mark is no
\* whitespace.
RECURSIVE DropWs(_)
DropWs(pre) ==
    IF pre # <<>> /\ Head(pre) = "ws" THEN DropWs(Tail(pre)) ELSE pre

Strip(b) ==
    IF DropWs(b.pre) = <<>> THEN [b EXCEPT !.pre = <<>>]
    ELSE IF b.kind = "empty" /\ b.pre[Len(b.pre)] = "ws"
         THEN [b EXCEPT !.pre = DropWs(SubSeq(b.pre, 1, Len(b.pre) - 1))]
    ELSE [b EXCEPT !.pre = DropWs(b.pre)]

\* s.startswith(ch) for a single character ch
StartsWith(b, ch) ==
    IF b.pre # <<>> THEN Head(b.pre) = ch ELSE FirstChar(b.kind) = ch

\* _is_json_like
_is_json_like(response_body) ==
    IF IsEmptyStr(response_body) THEN FALSE
    ELSE LET stripped == Strip(response_body) IN
         StartsWith(stripped, "{") \/ StartsWith(stripped, "[")

\* json.loads: [ok, err, kind, ty, obj]; err is the JSONDecodeError message.
ExpectingValue == "Expecting value"
ParseOk(b) == [ok |-> TRUE, err |-> "", kind |-> b.kind, ty |-> b.ty, obj |-> b.obj]
ParseErr(e) == [ok |-> FALSE, err |-> e, kind |-> "", ty |-> "", obj |-> NoFields]

json_loads(b) ==
    IF b.pre # <<>> /\ Head(b.pre) = "bom"
    THEN ParseErr("Unexpected UTF-8 BOM (decode using utf-8-sig)")
    ELSE IF DropWs(b.pre) # <<>> THEN ParseErr(ExpectingValue)
    ELSE CASE b.kind \in {"object", "array", "scalar"} -> ParseOk(b)
           [] b.kind = "badobj" ->
                ParseErr("Expecting property name enclosed in double quotes")
           [] b.kind = "extra" -> ParseErr("Extra data")
           [] OTHER -> ParseErr(ExpectingValue)

\* Lines 148-157: the strict parse, then one retry on the stripped body with
\* a leading byte-order mark removed.  The error that reaches line 197 is the
\* retry's.
ParseLenient(response_body) ==
    LET first == json_loads(response_body) IN
    IF first.ok THEN first
    ELSE LET cleaned_body == Strip(response_body)
             noBom == IF StartsWith(cleaned_body, "bom")
                      THEN [cleaned_body EXCEPT !.pre = Tail(cleaned_body.pre)]
                      ELSE cleaned_body
         IN json_loads(noBom)

-----------------------------------------------------------------------------
(* ResponseValidator.validate_response                                      *)
(*                                                                         *)
(* A status is [num, n]: whether the value is a number, and the number.    *)
(* A verdict is [ok, kind, msg, api, raised]: the returned 4-tuple, or     *)
(* raised = TRUE when the call raises instead of returning.                *)

Status(n) == [num |-> TRUE, n |-> n]
NonNumericStatus == [num |-> FALSE, n |-> 0]

\* str(status_code) for the status codes of the model
StatusText(n) ==
    CASE n = 0 -> "0"     [] n = 199 -> "199" [] n = 200 -> "200"
      [] n = 204 -> "204" [] n = 299 -> "299" [] n = 300 -> "300"
      [] n = 302 -> "302" [] n = 401 -> "401" [] n = 403 -> "403"
      [] n = 404 -> "404" [] n = 500 -> "500" [] n = 503 -> "503"
      [] OTHER -> "n"

Verdict(ok, kind, msg, api) ==
    [ok |-> ok, kind |-> kind, msg |-> msg, api |-> api, raised |-> FALSE]
Raised == [ok |-> FALSE, kind |-> "None", msg |-> <<>>, api |-> FALSE, raised |-> TRUE]
\* The skipped exchange reported as a failure.
Skip_Failed == Verdict(FALSE, "None", <<>>, FALSE)
\* Lines 116, 143 and 206: the exchange is skipped.
Skip == Verdict(TRUE, "None", <<>>, FALSE)
Pass == Verdict(TRUE, "None", <<>>, TRUE)

\* The message literals.  The source's Chinese literals are given by code
\* point: MsgEmptyBody is the literal of line 136 ("response body is empty"),
\* MsgBlankBody that of line 203, MsgNoCode that of line 169 ("the response
\* lacks a code field"), MsgNotObject that of line 165, MsgNotJson that of
\* line 207, MsgParseFailed the prefix of line 209.
MsgEmptyBody == "U+54CD U+5E94 U+4F53 U+4E3A U+7A7A"
MsgBlankBody == "U+54CD U+5E94 U+4F53 U+4E3A U+7A7A U+6216 U+53EA U+5305 U+542B U+7A7A U+767D U+5B57 U+7B26"
MsgNoCode == "U+54CD U+5E94 U+4E2D U+7F3A U+5C11 code U+5B57 U+6BB5"
MsgNotObject == "U+54CD U+5E94 U+4E0D U+662F JSON U+5BF9 U+8C61 U+683C U+5F0F: "
MsgNotJson == "JSON U+89E3 U+6790 U+5931 U+8D25: U+54CD U+5E94 U+4E0D U+662F U+6709 U+6548 U+7684 JSON U+683C U+5F0F"
MsgParseFailed == "JSON U+89E3 U+6790 U+5931 U+8D25: "

\* Lines 119-131.
StatusMessage(n) ==
    <<"HTTP ", StatusText(n)>> \o
    ( IF n = 404 THEN <<" - Not Found">>
      ELSE IF n = 500 THEN <<" - Internal Server Error">>
      ELSE IF n = 401 THEN <<" - Unauthorized">>
      ELSE IF n = 403 THEN <<" - Forbidden">>
      ELSE <<" - Error">> )

\* Lines 171-176 and 186-191: the first present of message, msg, error.
ExtraInfo(obj) ==
    IF "message" \in DOMAIN obj THEN <<", message=", obj["message"].s>>
    ELSE IF "msg" \in DOMAIN obj THEN <<", msg=", obj["msg"].s>>
    ELSE IF "error" \in DOMAIN obj THEN <<", error=", obj["error"].s>>
    ELSE <<>>

success_codes == {JStr("SUCCESS"), JStr("00000")}

\* CheckCode with the code compared without regard to case.
CheckCode_CaseFold(obj) ==
    IF "code" \notin DOMAIN obj
    THEN Verdict(FALSE, "RESPONSE_CODE_ERROR", <<MsgNoCode>> \o ExtraInfo(obj), TRUE)
    ELSE IF obj["code"] \notin success_codes \cup {JStr("success")}
    THEN Verdict(FALSE, "RESPONSE_CODE_ERROR",
                 <<"code=", obj["code"].s>> \o ExtraInfo(obj), TRUE)
    ELSE Pass

\* Lines 167-195: the business-code check of a parsed object.
CheckCode(obj) ==
    IF "code" \notin DOMAIN obj
    THEN Verdict(FALSE, "RESPONSE_CODE_ERROR", <<MsgNoCode>> \o ExtraInfo(obj), TRUE)
    ELSE IF obj["code"] \notin success_codes
    THEN Verdict(FALSE, "RESPONSE_CODE_ERROR",
                 <<"code=", obj["code"].s>> \o ExtraInfo(obj), TRUE)
    ELSE Pass

\* CheckShape with an array treated as every other value that is no object.
CheckShape_ArrayRejected(parsed) ==
    IF parsed.kind # "object"
    THEN Verdict(FALSE, "FORMAT_ERROR", <<MsgNotObject, parsed.ty>>, TRUE)
    ELSE CheckCode(parsed.obj)

\* Lines 159-165: the shape check of a parsed value.
CheckShape(parsed) ==
    IF parsed.kind # "object" THEN
        IF parsed.kind = "array" THEN Pass
        ELSE Verdict(FALSE, "FORMAT_ERROR", <<MsgNotObject, parsed.ty>>, TRUE)
    ELSE CheckCode(parsed.obj)

\* ParseFailure without the HTML rule of lines 204-206.
ParseFailure_NoHtmlRule(response_body, error_detail) ==
    IF error_detail = ExpectingValue THEN
        IF Strip(response_body).pre = <<>> /\ Strip(response_body).kind = "empty"
        THEN Verdict(FALSE, "FORMAT_ERROR", <<MsgBlankBody>>, TRUE)
        ELSE Verdict(FALSE, "FORMAT_ERROR", <<MsgNotJson>>, TRUE)
    ELSE Verdict(FALSE, "FORMAT_ERROR", <<MsgParseFailed, error_detail>>, TRUE)

\* Lines 197-209: the handler of the parse failure.
ParseFailure(response_body, error_detail) ==
    IF error_detail = ExpectingValue THEN
        IF Strip(response_body).pre = <<>> /\ Strip(response_body).kind = "empty"
        THEN Verdict(FALSE, "FORMAT_ERROR", <<MsgBlankBody>>, TRUE)
        ELSE IF StartsWith(Strip(response_body), "<") THEN Skip
        ELSE Verdict(FALSE, "FORMAT_ERROR", <<MsgNotJson>>, TRUE)
    ELSE Verdict(FALSE, "FORMAT_ERROR", <<MsgParseFailed, error_detail>>, TRUE)

\* CheckBody with the body-shape veto decided before the emptiness check.
CheckBody_VetoFirst(response_body, mime_type) ==
    IF /\ ~_is_json_like(response_body)
       /\ mime_type # <<>>
       /\ ~Contains(<<"json">>, LowerSeq(mime_type))
    THEN Skip
    ELSE IF IsEmptyStr(response_body)
    THEN Verdict(FALSE, "FORMAT_ERROR", <<MsgEmptyBody>>, TRUE)
    ELSE LET parsed == ParseLenient(response_body) IN
         IF parsed.ok THEN CheckShape(parsed)
         ELSE ParseFailure(response_body, parsed.err)

\* Lines 133-211: an API exchange with a 2xx status.
CheckBody(response_body, mime_type) ==
    IF IsEmptyStr(response_body)
    THEN Verdict(FALSE, "FORMAT_ERROR", <<MsgEmptyBody>>, TRUE)
    ELSE IF /\ ~_is_json_like(response_body)
            /\ mime_type # <<>>
            /\ ~Contains(<<"json">>, LowerSeq(mime_type))
    THEN Skip
    ELSE LET parsed == ParseLenient(response_body) IN
         IF parsed.ok THEN CheckShape(parsed)
         ELSE ParseFailure(response_body, parsed.err)

\* CheckStatus with the body inspected before the status.
CheckStatus_BodyFirst(status_code, response_body, mime_type) ==
    IF ~status_code.num THEN Raised
    ELSE IF IsEmptyStr(response_body) \/ (200 <= status_code.n /\ status_code.n < 300)
    THEN CheckBody(response_body, mime_type)
    ELSE Verdict(FALSE, "STATUS_CODE_ERROR", StatusMessage(status_code.n), TRUE)

\* Lines 118-131: the transport check; the comparison raises TypeError on a
\* status that is no number.
CheckStatus(status_code, response_body, mime_type) ==
    IF ~status_code.num THEN Raised
    ELSE IF ~(200 <= status_code.n /\ status_code.n < 300)
    THEN Verdict(FALSE, "STATUS_CODE_ERROR", StatusMessage(status_code.n), TRUE)
    ELSE CheckBody(response_body, mime_type)

\* Line 112: the classifier's value on the URLs and MIME types of the model,
\* computed once for each pair.
Classified == [url \in Urls, mime_type \in Mimes |-> _is_api_request(url, mime_type)]

validate_response(status_code, response_body, url, mime_type) ==
    LET is_api == Classified[url, mime_type] IN
    IF ~is_api THEN Skip
    ELSE CheckStatus(status_code, response_body, mime_type)

-----------------------------------------------------------------------------
(* The inputs of the validator specification.                              *)

Statuses == {Status(n) : n \in {199, 200, 299, 300, 401, 403, 404, 500}} \cup {NonNumericStatus}

Obj(fields) == Body(<<>>, "object", "dict", fields)
ObjSuccess == Obj([f \in {"code"} |-> JStr("SUCCESS")])
ObjZeros   == Obj([f \in {"code", "message"} |->
                    IF f = "code" THEN JStr("00000") ELSE JStr("ok")])
ObjFail    == Obj([f \in {"code", "message"} |->
                    IF f = "code" THEN JStr("9999") ELSE JStr("bad")])
ObjLower   == Obj([f \in {"code"} |-> JStr("success")])
ObjNumZero == Obj([f \in {"code", "msg"} |->
                    IF f = "code" THEN JNum("0") ELSE JStr("zero")])
ObjNumZeros == Obj([f \in {"code"} |-> JNum("00000")])
ObjNoCode  == Obj([f \in {"error"} |-> JStr("boom")])
ObjBare    == Obj([f \in {"data"} |-> JStr("x")])
ObjAllMsgs == Obj([f \in {"code", "message", "msg", "error"} |->
                    CASE f = "code" -> JStr("E1") [] f = "message" -> JStr("m1")
                      [] f = "msg" -> JStr("m2") [] OTHER -> JStr("m3")])
ObjMsgErr  == Obj([f \in {"msg", "error"} |->
                    IF f = "msg" THEN JStr("m2") ELSE JStr("m3")])

Bodies ==
    { EmptyBody,
      Body(<<"ws">>, "empty", "", NoFields),
      Body(<<"bom">>, "empty", "", NoFields),
      ObjSuccess, ObjZeros, ObjFail, ObjLower, ObjNumZero, ObjNumZeros,
      ObjNoCode, ObjBare, ObjAllMsgs, ObjMsgErr,
      [ObjSuccess EXCEPT !.pre = <<"ws">>],
      [ObjSuccess EXCEPT !.pre = <<"bom">>],
      [ObjFail EXCEPT !.pre = <<"ws", "bom">>],
      [ObjSuccess EXCEPT !.pre = <<"bom", "bom">>],
      Body(<<>>, "array", "list", NoFields),
      Body(<<>>, "scalar", "int", NoFields),
      Body(<<"bom">>, "scalar", "NoneType", NoFields),
      Body(<<>>, "html", "", NoFields),
      Body(<<"ws">>, "html", "", NoFields),
      Body(<<"bom">>, "html", "", NoFields),
      Body(<<>>, "text", "", NoFields),
      Body(<<>>, "badobj", "", NoFields),
      Body(<<>>, "objnoval", "", NoFields),
      Body(<<>>, "extra", "", NoFields) }

Calls == [url : Urls \ {UrlUsersB, UrlBadHost}, mime : Mimes, status : Statuses, body : Bodies]

NoCall == [url |-> <<>>, mime |-> <<>>, status |-> Status(0), body |-> EmptyBody]
NoVerdict == [ok |-> FALSE, kind |-> "unset", msg |-> <<>>, api |-> FALSE,
              raised |-> FALSE]

-----------------------------------------------------------------------------
(* The validator specification: one call of _is_api_request and of         *)
(* validate_response on arguments drawn from Calls.                        *)

PipeIdle ==
    /\ response_data = <<>>
    /\ processed_request_ids = {}
    /\ logs = <<>>
    /\ pc = "off"
    /\ did = "nothing"

AggIdle ==
    /\ errors = <<>>
    /\ recorded = <<>>

\* No report is written and no browser started (main.py lines 37-39).
NoReport == <<>>
LifeIdle ==
    /\ report = NoReport
    /\ driver = "none"
    /\ interceptor = FALSE
    /\ cleanup = <<>>

\* No thread is started and the browser has written nothing.
ConcIdle ==
    /\ monitoring = FALSE
    /\ thread = <<>>
    /\ reader = <<>>
    /\ browser_log = <<>>
    /\ emitted = 0
    /\ orphans = <<>>

InitV ==
    /\ call \in Calls
    /\ verdict = NoVerdict
    /\ cls = "unset"
    /\ PipeIdle
    /\ AggIdle
    /\ ConcIdle
    /\ LifeIdle

Classify ==
    /\ cls = "unset"
    /\ cls' = IF Classified[call.url, call.mime] THEN "api" ELSE "not_api"
    /\ UNCHANGED <<call, verdict, pipeVars, aggVars, concVars, lifeVars>>

Validate ==
    /\ cls # "unset"
    /\ verdict = NoVerdict
    /\ verdict' = validate_response(call.status, call.body, call.url, call.mime)
    /\ UNCHANGED <<call, cls, pipeVars, aggVars, concVars, lifeVars>>

NextV == Classify \/ Validate

SpecV == InitV /\ [][NextV]_vars

-----------------------------------------------------------------------------
(* ErrorSummarizer (src/src/error_summarizer.py).                          *)
(*                                                                         *)
(* errors is the dict self.errors as the sequence of its items in          *)
(* insertion order; an item is [key, rec] and rec the ErrorRecord          *)
(* [uri, error_type, error_message, status_code, response_body, count,     *)
(* details].  An ErrorDetail is [error_message, status_code,               *)
(* response_body, request_method].                                         *)

SchemeTokens == {"http", "https", "data", "chrome-extension", "moz-extension"}

\* The longest prefix of s with no token of stops.
RECURSIVE UpTo(_, _)
UpTo(s, stops) ==
    IF s = <<>> \/ Head(s) \in stops THEN <<>>
    ELSE <<Head(s)>> \o UpTo(Tail(s), stops)

\* s without its longest prefix that has no token of stops.
RECURSIVE From(_, _)
From(s, stops) ==
    IF s = <<>> \/ Head(s) \in stops THEN s ELSE From(Tail(s), stops)

\* urllib.parse.urlparse(url).path: the scheme and the "//" authority are
\* split off, then the fragment and the query.  An authority with an
\* unmatched "[" raises ValueError ("Invalid IPv6 URL").
UrlParse(url) ==
    LET rest == IF Len(url) >= 2 /\ url[1] \in SchemeTokens /\ url[2] = ":"
                THEN SubSeq(url, 3, Len(url)) ELSE url
        hasNetloc == rest # <<>> /\ Head(rest) = "//"
        netloc == IF hasNetloc THEN UpTo(Tail(rest), {"/", "?", "#"}) ELSE <<>>
        tail == IF hasNetloc THEN From(Tail(rest), {"/", "?", "#"}) ELSE rest
    IN  [ raises |-> Contains(<<"[">>, netloc) /\ ~Contains(<<"]">>, netloc),
          path |-> UpTo(UpTo(tail, {"#"}), {"?"}) ]

\* _extract_uri_path with only the fragment split off.
_extract_uri_path_KeepQuery(url) ==
    LET parsed == UrlParse(url) IN
    IF parsed.raises THEN url
    ELSE UpTo(From(url, {"/"}), {"#"})

\* ErrorSummarizer._extract_uri_path
_extract_uri_path(url) ==
    LET parsed == UrlParse(url) IN
    IF parsed.raises THEN url ELSE parsed.path

ErrorDetail(error_message, status_code, response_body, request_method) ==
    [ error_message |-> error_message, status_code |-> status_code,
      response_body |-> response_body, request_method |-> request_method ]

\* ErrorRecord.__init__
ErrorRecord(uri, error_type, error_message, status_code, response_body, request_method) ==
    [ uri |-> uri, error_type |-> error_type, error_message |-> error_message,
      status_code |-> status_code, response_body |-> response_body,
      count |-> 1,
      details |-> << ErrorDetail(error_message, status_code, response_body,
                                 request_method) >> ]

\* add_detail without the count update.
add_detail_NoCount(rec, error_message, status_code, response_body, request_method) ==
    [ rec EXCEPT
        !.details = Append(@, ErrorDetail(error_message, status_code,
                                          response_body, request_method)),
        !.error_message = IF error_message # rec.error_message
                          THEN @ \o <<" | ">> \o error_message ELSE @ ]

\* add_detail with the record's status code and error type set to those of
\* the latest failure.
add_detail_LatestKind(rec, error_message, status_code, response_body, request_method) ==
    [ rec EXCEPT
        !.count = @ + 1,
        !.status_code = status_code,
        !.error_type = IF status_code = Status(200) THEN "FORMAT_ERROR"
                       ELSE "STATUS_CODE_ERROR",
        !.details = Append(@, ErrorDetail(error_message, status_code,
                                          response_body, request_method)),
        !.error_message = IF error_message # rec.error_message
                          THEN @ \o <<" | ">> \o error_message ELSE @ ]

\* ErrorRecord.add_detail
add_detail(rec, error_message, status_code, response_body, request_method) ==
    [ rec EXCEPT
        !.count = @ + 1,
        !.details = Append(@, ErrorDetail(error_message, status_code,
                                          response_body, request_method)),
        !.error_message = IF error_message # rec.error_message
                          THEN @ \o <<" | ">> \o error_message ELSE @ ]

\* The position of key in the dict, 0 when absent.
IndexOf(errs, key) ==
    IF \E i \in 1..Len(errs) : errs[i].key = key
    THEN CHOOSE i \in 1..Len(errs) : errs[i].key = key
    ELSE 0

\* add_error with a fresh record stored for the path on every call.
add_error_Overwrite(errs, uri, error_type, error_message, status_code, response_body, request_method) ==
    LET clean_uri == _extract_uri_path(uri)
        i == IndexOf(errs, clean_uri)
        fresh == ErrorRecord(clean_uri, error_type, error_message, status_code,
                             response_body, request_method)
    IN  IF i # 0
        THEN [errs EXCEPT ![i].rec = fresh]
        ELSE Append(errs, [key |-> clean_uri, rec |-> fresh])

\* ErrorSummarizer.add_error: the dict after the call.
add_error(errs, uri, error_type, error_message, status_code, response_body, request_method) ==
    LET clean_uri == _extract_uri_path(uri)
        i == IndexOf(errs, clean_uri)
    IN  IF i # 0
        THEN [errs EXCEPT ![i].rec = add_detail(@, error_message, status_code,
                                                response_body, request_method)]
        ELSE Append(errs, [ key |-> clean_uri,
                            rec |-> ErrorRecord(clean_uri, error_type,
                                                error_message, status_code,
                                                response_body, request_method) ])

\* The history entry of one add_error call.
Recorded(uri, error_type, error_message, status_code, response_body, request_method) ==
    [ uri |-> uri, error_type |-> error_type, error_message |-> error_message,
      status_code |-> status_code, response_body |-> response_body,
      request_method |-> request_method ]

-----------------------------------------------------------------------------
(* The aggregator specification: any sequence of add_error and clear       *)
(* calls, at most MaxFailures failures recorded between two resets.        *)

MaxFailures == 3

AggUrls == {UrlUsers, UrlUsersB, UrlOrders, UrlBadHost}

MsgNotFound == StatusMessage(404)
MsgCode9999 == <<"code=", "9999", ", message=", "bad">>

\* What the pipeline passes to add_error for three failing exchanges.
Failures ==
    { [error_type |-> "STATUS_CODE_ERROR", error_message |-> MsgNotFound,
       status_code |-> Status(404), response_body |-> EmptyBody],
      [error_type |-> "FORMAT_ERROR", error_message |-> <<MsgEmptyBody>>,
       status_code |-> Status(200), response_body |-> EmptyBody],
      [error_type |-> "RESPONSE_CODE_ERROR", error_message |-> MsgCode9999,
       status_code |-> Status(200), response_body |-> ObjFail] }

ValIdle ==
    /\ call = NoCall
    /\ verdict = NoVerdict
    /\ cls = "unset"

InitAgg ==
    /\ AggIdle
    /\ PipeIdle
    /\ ValIdle
    /\ LifeIdle
    /\ ConcIdle

AddError(uri, f) ==
    /\ Len(recorded) < MaxFailures
    /\ errors' = add_error(errors, uri, f.error_type, f.error_message,
                           f.status_code, f.response_body, "GET")
    /\ recorded' = Append(recorded,
                          Recorded(uri, f.error_type, f.error_message,
                                   f.status_code, f.response_body, "GET"))
    /\ UNCHANGED <<pipeVars, valVars, lifeVars, concVars>>

\* ErrorSummarizer.clear
Clear ==
    /\ errors # <<>>
    /\ errors' = <<>>
    /\ recorded' = <<>>
    /\ UNCHANGED <<pipeVars, valVars, lifeVars, concVars>>

NextAgg ==
    \/ \E uri \in AggUrls, f \in Failures : AddError(uri, f)
    \/ Clear

SpecAgg == InitAgg /\ [][NextAgg]_vars

-----------------------------------------------------------------------------
(* APIInterceptor (src/src/api_interceptor.py): the sequential pipeline.   *)
(*                                                                         *)
(* One pass of process_logs takes a batch of log entries from the driver   *)
(* and iterates it.  logs holds the class of each entry still to iterate:  *)
(* "event" (a payload with the nested method/params structure) or          *)
(* "malformed"; what the entry holds is drawn when it is iterated.         *)
(* did is what handling the last entry did: [id, out, fetches,             *)
(* validations], id the requestId of the event ("" when it has none).      *)

MaxBatch == 2

Ids == {"r1", "r2"}
NoId == ""

\* What a responseReceived event carries: url, status and mimeType.
Responses ==
    [url : {UrlUsers}, status : {Status(200), Status(404), NonNumericStatus},
     mime : {NoMime}]
    \cup { [url |-> UrlUsers, status |-> Status(200), mime |-> MimePlain],
           [url |-> UrlPage, status |-> Status(404), mime |-> NoMime] }
\* The events with an empty requestId or an empty url.
EmptyEvents ==
    { [id |-> NoId, url |-> UrlUsers, status |-> Status(404), mime |-> NoMime],
      [id |-> "r1", url |-> <<>>, status |-> Status(404), mime |-> NoMime] }
HtmlBody == Body(<<>>, "html", "", NoFields)
PipeBodies == {EmptyBody, ObjSuccess, ObjFail, HtmlBody}

\* What Network.getResponseBody gives: a body, or failure (the command or
\* the base64 decoding raises).
Fetches == [ok : {TRUE}, body : PipeBodies] \cup {[ok |-> FALSE, body |-> EmptyBody]}

Batches == UNION { [1..n -> {"event", "malformed"}] : n \in 0..MaxBatch }

\* validate_response on the exchanges of the model, tabulated.
Validated ==
    [ r \in Responses, body \in PipeBodies |->
        validate_response(r.status, body, r.url, r.mime) ]

\* The validation of line 146 for a pending entry and the body fetched.
Validation(response_info, body_text) ==
    Validated[ [url |-> response_info.url, status |-> response_info.status,
                mime |-> response_info.mimeType], body_text ]

Did(id, out, fetches, validations) ==
    [id |-> id, out |-> out, fetches |-> fetches, validations |-> validations]

\* d[k] = v
Put(d, k, v) == [x \in DOMAIN d \cup {k} |-> IF x = k THEN v ELSE d[x]]
\* del d[k]
Del(d, k) == [x \in DOMAIN d \ {k} |-> d[x]]

Init ==
    /\ response_data = <<>>
    /\ processed_request_ids = {}
    /\ logs = <<>>
    /\ pc = "idle"
    /\ did = Did(NoId, "none", 0, 0)
    /\ AggIdle
    /\ ValIdle
    /\ LifeIdle
    /\ ConcIdle

\* process_logs, line 65: the driver hands over the next batch.
GetLog ==
    /\ pc = "idle"
    /\ \E batch \in Batches : logs' = batch
    /\ pc' = "loop"
    /\ UNCHANGED <<response_data, processed_request_ids, did, aggVars, valVars, lifeVars, concVars>>

\* process_logs: the for loop is exhausted.
EndPass ==
    /\ pc = "loop"
    /\ logs = <<>>
    /\ pc' = "idle"
    /\ UNCHANGED <<response_data, processed_request_ids, logs, did, aggVars, valVars, lifeVars, concVars>>

\* process_logs, lines 68-80, on an entry that carries no event.  cause:
\*   "badjson"   the message text is no JSON (json.JSONDecodeError)
\*   "nokey"     the entry has no 'message' key (KeyError)
\*   "nomethod"  the payload is an object without 'message' or 'method'
\*   "notdict"   the payload, or its 'message', is no object: .get raises
\*               AttributeError, which line 79 does not catch and line 81 does
HandleMalformed(cause) ==
    /\ pc = "loop"
    /\ logs # <<>>
    /\ Head(logs) = "malformed"
    /\ IF cause = "notdict"
       THEN /\ logs' = <<>>
            /\ pc' = "idle"
            /\ did' = Did(NoId, "abort", 0, 0)
       ELSE /\ logs' = Tail(logs)
            /\ pc' = pc
            /\ did' = Did(NoId, "skip", 0, 0)
    /\ UNCHANGED <<response_data, processed_request_ids, aggVars, valVars, lifeVars, concVars>>

\* process_logs, lines 73-78, on a method that is neither of the two.
HandleOther ==
    /\ pc = "loop"
    /\ logs # <<>>
    /\ Head(logs) = "event"
    /\ logs' = Tail(logs)
    /\ did' = Did(NoId, "ignored", 0, 0)
    /\ UNCHANGED <<response_data, processed_request_ids, pc, aggVars, valVars, lifeVars, concVars>>

\* _handle_response_received with the guard of line 99 testing the id only.
_handle_response_received_NoUrlGuard(request_id, url, status, mime) ==
    IF request_id # NoId
    THEN /\ response_data' = Put(response_data, request_id,
                                 [ url |-> url, status |-> status,
                                   mimeType |-> mime, request_method |-> "GET" ])
         /\ did' = Did(request_id, "stored", 0, 0)
    ELSE /\ response_data' = response_data
         /\ did' = Did(request_id, "discarded", 0, 0)

\* _handle_response_received
_handle_response_received(request_id, url, status, mime) ==
    IF request_id # NoId /\ url # <<>>
    THEN /\ response_data' = Put(response_data, request_id,
                                 [ url |-> url, status |-> status,
                                   mimeType |-> mime, request_method |-> "GET" ])
         /\ did' = Did(request_id, "stored", 0, 0)
    ELSE /\ response_data' = response_data
         /\ did' = Did(request_id, "discarded", 0, 0)

HandleResponseReceived(request_id, url, status, mime) ==
    /\ pc = "loop"
    /\ logs # <<>>
    /\ Head(logs) = "event"
    /\ logs' = Tail(logs)
    /\ _handle_response_received(request_id, url, status, mime)
    /\ UNCHANGED <<processed_request_ids, pc, aggVars, valVars, lifeVars, concVars>>

\* Lines 150-171 with an exchange recorded whenever it is not a pass.
Finalize_RecordNonApi(request_id, response_info, body_text, v) ==
    /\ IF ~v.ok \/ ~v.api
       THEN /\ errors' = add_error(errors, response_info.url, v.kind, v.msg,
                                   response_info.status, body_text,
                                   response_info.request_method)
            /\ recorded' = Append(recorded,
                                  Recorded(response_info.url, v.kind, v.msg,
                                           response_info.status, body_text,
                                           response_info.request_method))
            /\ did' = Did(request_id, "fail", 1, 1)
       ELSE /\ did' = Did(request_id, "pass", 1, 1)
            /\ UNCHANGED aggVars
    /\ processed_request_ids' = processed_request_ids \cup {request_id}
    /\ response_data' = Del(response_data, request_id)

\* Lines 150-171: what the handler does with the verdict v it got.
Finalize(request_id, response_info, body_text, v) ==
    IF ~v.api
    THEN /\ did' = Did(request_id, "nonapi", 1, 1)
         /\ processed_request_ids' = processed_request_ids \cup {request_id}
         /\ response_data' = Del(response_data, request_id)
         /\ UNCHANGED aggVars
    ELSE IF ~v.ok
    THEN /\ errors' = add_error(errors, response_info.url, v.kind, v.msg,
                                response_info.status, body_text,
                                response_info.request_method)
         /\ recorded' = Append(recorded,
                               Recorded(response_info.url, v.kind, v.msg,
                                        response_info.status, body_text,
                                        response_info.request_method))
         /\ did' = Did(request_id, "fail", 1, 1)
         /\ processed_request_ids' = processed_request_ids \cup {request_id}
         /\ response_data' = Del(response_data, request_id)
    ELSE /\ did' = Did(request_id, "pass", 1, 1)
         /\ processed_request_ids' = processed_request_ids \cup {request_id}
         /\ response_data' = Del(response_data, request_id)
         /\ UNCHANGED aggVars

\* Correlate with a failure recorded for an id that has no pending entry.
Correlate_RecordUnmatched(request_id, fetch) ==
    IF request_id \notin DOMAIN response_data
    THEN /\ did' = Did(request_id, "fail", 1, 1)
         /\ errors' = add_error(errors, UrlOrders, "FORMAT_ERROR", <<MsgEmptyBody>>,
                                Status(200), EmptyBody, "GET")
         /\ recorded' = Append(recorded,
                               Recorded(UrlOrders, "FORMAT_ERROR", <<MsgEmptyBody>>,
                                        Status(200), EmptyBody, "GET"))
         /\ UNCHANGED <<response_data, processed_request_ids>>
    ELSE LET response_info == response_data[request_id]
             body_text == IF fetch.ok THEN fetch.body ELSE EmptyBody
             v == Validation(response_info, body_text)
         IN  IF v.raised
             THEN /\ did' = Did(request_id, "raised", 1, 1)
                  /\ UNCHANGED <<response_data, processed_request_ids, aggVars>>
             ELSE Finalize(request_id, response_info, body_text, v)

\* Lines 119-171: the handler past its guard.  An exception of the
\* validation leaves the try block at line 172 with nothing changed.
Correlate(request_id, fetch) ==
    IF request_id \notin DOMAIN response_data
    THEN /\ did' = Did(request_id, "noop", 0, 0)
         /\ UNCHANGED <<response_data, processed_request_ids, aggVars>>
    ELSE LET response_info == response_data[request_id]
             body_text == IF fetch.ok THEN fetch.body ELSE EmptyBody
             v == Validation(response_info, body_text)
         IN  IF v.raised
             THEN /\ did' = Did(request_id, "raised", 1, 1)
                  /\ UNCHANGED <<response_data, processed_request_ids, aggVars>>
             ELSE Finalize(request_id, response_info, body_text, v)

\* _handle_loading_finished with the guard of line 116 testing the id only.
_handle_loading_finished_NoGuard(request_id, fetch) ==
    IF request_id = NoId
    THEN /\ did' = Did(request_id, "noop", 0, 0)
         /\ UNCHANGED <<response_data, processed_request_ids, aggVars>>
    ELSE Correlate(request_id, fetch)

\* _handle_loading_finished: fetch is what the body fetch of line 132 gives.
_handle_loading_finished(request_id, fetch) ==
    IF request_id = NoId \/ request_id \in processed_request_ids
    THEN /\ did' = Did(request_id, "noop", 0, 0)
         /\ UNCHANGED <<response_data, processed_request_ids, aggVars>>
    ELSE Correlate(request_id, fetch)

HandleLoadingFinished(request_id, fetch) ==
    /\ pc = "loop"
    /\ logs # <<>>
    /\ Head(logs) = "event"
    /\ logs' = Tail(logs)
    /\ _handle_loading_finished(request_id, fetch)
    /\ UNCHANGED <<pc, valVars, lifeVars, concVars>>

Next ==
    \/ GetLog
    \/ EndPass
    \/ \E cause \in {"badjson", "nokey", "nomethod", "notdict"} : HandleMalformed(cause)
    \/ HandleOther
    \/ \E request_id \in Ids, r \in Responses :
          HandleResponseReceived(request_id, r.url, r.status, r.mime)
    \/ \E e \in EmptyEvents :
          HandleResponseReceived(e.id, e.url, e.status, e.mime)
    \/ \E request_id \in Ids \cup {NoId}, fetch \in Fetches :
          HandleLoadingFinished(request_id, fetch)

Spec == Init /\ [][Next]_vars

-----------------------------------------------------------------------------
(* The threads of a run (src/main.py).  APIMonitor.start starts the web    *)
(* server thread (line 174), calls start_monitoring (line 190), which      *)
(* starts the monitor thread on monitor_loop, and then runs its own loop   *)
(* (lines 200-211).  Both loops call process_logs on the one interceptor   *)
(* and no lock is taken anywhere.  A step of a thread is one statement's   *)
(* access to the shared objects; what a thread computes on its locals      *)
(* between two accesses belongs to the step before.                        *)
(*                                                                         *)
(* An item of errors carries here the identity oid of its ErrorRecord      *)
(* object: a thread or the reader holds a record by reference, and a       *)
(* record replaced in the dict lives on in orphans for those who hold it.  *)

MaxEmitted == 4

Threads == {"main", "monitor"}

\* What the browser answers in this specification.
ConcResponses ==
    { [url |-> UrlUsers, status |-> Status(404), mime |-> NoMime],
      [url |-> UrlUsers, status |-> Status(200), mime |-> NoMime] }
ConcFetches ==
    { [ok |-> TRUE, body |-> ObjSuccess], [ok |-> FALSE, body |-> EmptyBody] }

NoResponse == [url |-> <<>>, status |-> Status(0), mime |-> NoMime]

\* The entries the browser writes to its performance log.
Entries ==
    [method : {"Network.responseReceived"}, requestId : Ids,
     response : ConcResponses]
    \cup [method : {"Network.loadingFinished"}, requestId : Ids,
          response : {NoResponse}]

NoInfo == [url |-> <<>>, status |-> Status(0), mimeType |-> NoMime,
           request_method |-> ""]

\* The locals of a polling thread at position pos with entries to iterate.
Local(pos, entries) ==
    [ pc |-> pos, logs |-> entries, request_id |-> NoId,
      response_info |-> NoInfo, body_text |-> EmptyBody, v |-> NoVerdict,
      oid |-> 0, count |-> 0 ]

\* The query handler between two requests.
NoReader == [pc |-> "idle", found |-> FALSE, oid |-> 0, details |-> <<>>,
             count |-> 0, oids |-> <<>>, listed |-> <<>>, total_errors |-> 0,
             total_requests |-> 0]

\* The uri Flask hands to get_error_details for /api/error-details/api/v1/users.
Queries == { <<"api", "/", "v1", "/", "users">> }

InitConc ==
    /\ PipeIdle
    /\ AggIdle
    /\ ValIdle
    /\ LifeIdle
    /\ monitoring = FALSE
    /\ thread = [t \in Threads |->
                    Local(IF t = "main" THEN "start" ELSE "unborn", <<>>)]
    /\ reader = NoReader
    /\ browser_log = <<>>
    /\ emitted = 0
    /\ orphans = <<>>

\* The ErrorRecord object oid.
Object(oid) ==
    IF \E i \in 1..Len(errors) : errors[i].oid = oid
    THEN errors[CHOOSE i \in 1..Len(errors) : errors[i].oid = oid].rec
    ELSE orphans[oid]

\* An attribute store on the ErrorRecord object oid.
Store(oid, rec) ==
    IF \E i \in 1..Len(errors) : errors[i].oid = oid
    THEN /\ errors' = [errors EXCEPT
                         ![CHOOSE i \in 1..Len(errors) : errors[i].oid = oid].rec = rec]
         /\ UNCHANGED orphans
    ELSE /\ orphans' = Put(orphans, oid, rec)
         /\ UNCHANGED errors

\* The thread goes on to the next entry of its batch.
Advance(t) == [thread EXCEPT ![t] = Local("loop", Tail(thread[t].logs))]

\* The browser writes an entry.
Emit(entry) ==
    /\ emitted < MaxEmitted
    /\ browser_log' = Append(browser_log, entry)
    /\ emitted' = emitted + 1
    /\ UNCHANGED <<pipeVars, aggVars, valVars, lifeVars, monitoring, thread, reader, orphans>>

\* APIInterceptor.start_monitoring, called at main.py line 190: the flag is
\* set and the monitor thread started; the caller goes on to its own loop.
start_monitoring ==
    /\ thread["main"].pc = "start"
    /\ ~monitoring
    /\ monitoring' = TRUE
    /\ thread' = [t \in Threads |-> Local("poll", <<>>)]
    /\ UNCHANGED <<pipeVars, aggVars, valVars, lifeVars, reader, browser_log, emitted, orphans>>

\* process_logs line 65, called from monitor_loop (line 187, while the flag
\* is set) or from main.py line 203: get_log hands over the log and empties it.
PollLogs(t) ==
    /\ thread[t].pc = "poll"
    /\ t = "monitor" => monitoring
    /\ thread' = [thread EXCEPT ![t] = Local("loop", browser_log)]
    /\ browser_log' = <<>>
    /\ UNCHANGED <<pipeVars, aggVars, valVars, lifeVars, monitoring, reader, emitted, orphans>>

\* monitor_loop line 185: the flag is cleared, the loop ends.
MonitorExit ==
    /\ thread["monitor"].pc = "poll"
    /\ ~monitoring
    /\ thread' = [thread EXCEPT !["monitor"] = Local("stopped", <<>>)]
    /\ UNCHANGED <<pipeVars, aggVars, valVars, lifeVars, monitoring, reader, browser_log,
                   emitted, orphans>>

\* process_logs: the for loop is exhausted and the call returns.
EndLoop(t) ==
    /\ thread[t].pc = "loop"
    /\ thread[t].logs = <<>>
    /\ thread' = [thread EXCEPT
                    ![t] = Local(IF t = "main" THEN "check" ELSE "poll", <<>>)]
    /\ UNCHANGED <<pipeVars, aggVars, valVars, lifeVars, monitoring, reader, browser_log,
                   emitted, orphans>>

\* main.py lines 205-211: the browser still runs, the loop goes round.
MainContinue ==
    /\ thread["main"].pc = "check"
    /\ thread' = [thread EXCEPT !["main"] = Local("poll", <<>>)]
    /\ UNCHANGED <<pipeVars, aggVars, valVars, lifeVars, monitoring, reader, browser_log,
                   emitted, orphans>>

\* main.py lines 207-209 and 220: the browser is closed; cleanup calls
\* stop_monitoring, which clears the flag (line 198) and waits at most two
\* seconds for the monitor thread (line 200).
MainExit ==
    /\ thread["main"].pc = "check"
    /\ monitoring' = FALSE
    /\ thread' = [thread EXCEPT !["main"] = Local("stopped", <<>>)]
    /\ UNCHANGED <<pipeVars, aggVars, valVars, lifeVars, reader, browser_log, emitted, orphans>>

\* process_logs lines 73-75 with _handle_response_received.
ThreadResponseReceived(t) ==
    /\ thread[t].pc = "loop"
    /\ thread[t].logs # <<>>
    /\ LET e == Head(thread[t].logs) IN
       /\ e.method = "Network.responseReceived"
       /\ response_data' =
             IF e.requestId # NoId /\ e.response.url # <<>>
             THEN Put(response_data, e.requestId,
                      [ url |-> e.response.url, status |-> e.response.status,
                        mimeType |-> e.response.mime, request_method |-> "GET" ])
             ELSE response_data
    /\ thread' = Advance(t)
    /\ UNCHANGED <<processed_request_ids, seqVars, aggVars, valVars, lifeVars, monitoring,
                   reader, browser_log, emitted, orphans>>

\* _handle_loading_finished lines 115-127: the guard and the read of the
\* pending entry.
ThreadGuard(t) ==
    /\ thread[t].pc = "loop"
    /\ thread[t].logs # <<>>
    /\ LET e == Head(thread[t].logs) IN
       /\ e.method = "Network.loadingFinished"
       /\ thread' =
             IF \/ e.requestId = NoId
                \/ e.requestId \in processed_request_ids
                \/ e.requestId \notin DOMAIN response_data
             THEN Advance(t)
             ELSE [thread EXCEPT ![t].pc = "fetch",
                                 ![t].request_id = e.requestId,
                                 ![t].response_info = response_data[e.requestId]]
    /\ UNCHANGED <<pipeVars, aggVars, valVars, lifeVars, monitoring, reader, browser_log,
                   emitted, orphans>>

\* Lines 129-159: the body fetch, the validation and the branch on its verdict.
ThreadValidate(t, fetch) ==
    /\ thread[t].pc = "fetch"
    /\ LET body_text == IF fetch.ok THEN fetch.body ELSE EmptyBody
           v == Validation(thread[t].response_info, body_text)
       IN  thread' =
             IF v.raised THEN Advance(t)
             ELSE [thread EXCEPT ![t].body_text = body_text,
                                 ![t].v = v,
                                 ![t].pc = IF v.api /\ ~v.ok THEN "add_error"
                                           ELSE "mark"]
    /\ UNCHANGED <<pipeVars, aggVars, valVars, lifeVars, monitoring, reader, browser_log,
                   emitted, orphans>>

\* add_error lines 157-161: the key, the membership test and the reference
\* to the existing record.
ThreadAddError(t) ==
    /\ thread[t].pc = "add_error"
    /\ LET me == thread[t]
           i == IndexOf(errors, _extract_uri_path(me.response_info.url))
       IN  /\ recorded' = Append(recorded,
                                 Recorded(me.response_info.url, me.v.kind, me.v.msg,
                                          me.response_info.status, me.body_text,
                                          me.response_info.request_method))
           /\ thread' = IF i # 0
                        THEN [thread EXCEPT ![t].pc = "add_detail",
                                            ![t].oid = errors[i].oid]
                        ELSE [thread EXCEPT ![t].pc = "create",
                                            ![t].oid = Len(recorded) + 1]
    /\ UNCHANGED <<pipeVars, errors, valVars, lifeVars, monitoring, reader, browser_log,
                   emitted, orphans>>

\* add_error line 173: a new record is stored under the key, in place of the
\* record another thread stored there since the test.
ThreadCreate(t) ==
    /\ thread[t].pc = "create"
    /\ LET me == thread[t]
           clean_uri == _extract_uri_path(me.response_info.url)
           i == IndexOf(errors, clean_uri)
           item == [ key |-> clean_uri, oid |-> me.oid,
                     rec |-> ErrorRecord(clean_uri, me.v.kind, me.v.msg,
                                         me.response_info.status, me.body_text,
                                         me.response_info.request_method) ]
       IN  IF i # 0
           THEN /\ errors' = [errors EXCEPT ![i] = item]
                /\ orphans' = Put(orphans, errors[i].oid, errors[i].rec)
           ELSE /\ errors' = Append(errors, item)
                /\ UNCHANGED orphans
    /\ thread' = [thread EXCEPT ![t].pc = "mark"]
    /\ UNCHANGED <<pipeVars, recorded, valVars, lifeVars, monitoring, reader, browser_log,
                   emitted>>

\* add_detail line 97, self.count += 1: the load of the attribute.
ThreadCountLoad(t) ==
    /\ thread[t].pc = "add_detail"
    /\ thread' = [thread EXCEPT ![t].pc = "count_store",
                                ![t].count = Object(thread[t].oid).count]
    /\ UNCHANGED <<pipeVars, aggVars, valVars, lifeVars, monitoring, reader, browser_log,
                   emitted, orphans>>

\* add_detail line 97, self.count += 1: the store of the sum.
ThreadCountStore(t) ==
    /\ thread[t].pc = "count_store"
    /\ Store(thread[t].oid,
             [Object(thread[t].oid) EXCEPT !.count = thread[t].count + 1])
    /\ thread' = [thread EXCEPT ![t].pc = "append"]
    /\ UNCHANGED <<pipeVars, recorded, valVars, lifeVars, monitoring, reader, browser_log,
                   emitted>>

\* add_detail lines 98-106: the detail is appended.
ThreadAppend(t) ==
    /\ thread[t].pc = "append"
    /\ LET me == thread[t] IN
       Store(me.oid,
             [Object(me.oid) EXCEPT
                !.details = Append(@, ErrorDetail(me.v.msg, me.response_info.status,
                                                  me.body_text,
                                                  me.response_info.request_method))])
    /\ thread' = [thread EXCEPT ![t].pc = "message"]
    /\ UNCHANGED <<pipeVars, recorded, valVars, lifeVars, monitoring, reader, browser_log,
                   emitted>>

\* add_detail lines 108-109: the summary message.
ThreadMessage(t) ==
    /\ thread[t].pc = "message"
    /\ LET me == thread[t]
           rec == Object(me.oid)
       IN  Store(me.oid,
                 [rec EXCEPT !.error_message =
                     IF me.v.msg # rec.error_message
                     THEN @ \o <<" | ">> \o me.v.msg ELSE @])
    /\ thread' = [thread EXCEPT ![t].pc = "mark"]
    /\ UNCHANGED <<pipeVars, recorded, valVars, lifeVars, monitoring, reader, browser_log,
                   emitted>>

\* _handle_loading_finished line 153 or 167: the id is marked processed.
ThreadMark(t) ==
    /\ thread[t].pc = "mark"
    /\ processed_request_ids' = processed_request_ids \cup {thread[t].request_id}
    /\ thread' = [thread EXCEPT ![t].pc = "cleanup"]
    /\ UNCHANGED <<response_data, seqVars, aggVars, valVars, lifeVars, monitoring, reader,
                   browser_log, emitted, orphans>>

\* Lines 154-155 or 170-171: the pending entry is deleted when it is there.
ThreadCleanup(t) ==
    /\ thread[t].pc = "cleanup"
    /\ response_data' = IF thread[t].request_id \in DOMAIN response_data
                        THEN Del(response_data, thread[t].request_id)
                        ELSE response_data
    /\ thread' = Advance(t)
    /\ UNCHANGED <<processed_request_ids, seqVars, aggVars, valVars, lifeVars, monitoring,
                   reader, browser_log, emitted, orphans>>

\* web_server.py lines 107-110: the tests that make a record match.
Matches(record_uri, decoded_uri, normalized_uri) ==
    \/ record_uri = decoded_uri
    \/ record_uri = normalized_uri
    \/ normalized_uri # <<>> /\ EndsWith(record_uri, normalized_uri)
    \/ record_uri # <<>> /\ EndsWith(normalized_uri, record_uri)

\* get_error_details lines 93-110: the records of get_summary are searched,
\* in the order of the dict, for the first that matches.
ReaderFind(uri) ==
    /\ reader.pc = "idle"
    /\ LET normalized_uri == _extract_uri_path(uri)
           hits == { i \in 1..Len(errors) :
                        Matches(errors[i].rec.uri, uri, normalized_uri) }
       IN  reader' =
             IF hits = {} THEN [NoReader EXCEPT !.pc = "done"]
             ELSE [NoReader EXCEPT
                     !.pc = "details", !.found = TRUE,
                     !.oid = errors[CHOOSE i \in hits : \A j \in hits : i <= j].oid]
    /\ UNCHANGED <<pipeVars, aggVars, valVars, lifeVars, monitoring, thread, browser_log,
                   emitted, orphans>>

\* get_error_details lines 113-124: the details of the record are read.
ReaderDetails ==
    /\ reader.pc = "details"
    /\ reader' = [reader EXCEPT !.pc = "count",
                                !.details = Object(reader.oid).details]
    /\ UNCHANGED <<pipeVars, aggVars, valVars, lifeVars, monitoring, thread, browser_log,
                   emitted, orphans>>

\* get_error_details lines 126-134: the count is read and the response built.
ReaderCount ==
    /\ reader.pc = "count"
    /\ reader' = [reader EXCEPT !.pc = "done",
                                !.count = Object(reader.oid).count]
    /\ UNCHANGED <<pipeVars, aggVars, valVars, lifeVars, monitoring, thread, browser_log,
                   emitted, orphans>>

\* The response is sent.
ReaderReturn ==
    /\ reader.pc = "done"
    /\ reader' = NoReader
    /\ UNCHANGED <<pipeVars, aggVars, valVars, lifeVars, monitoring, thread, browser_log,
                   emitted, orphans>>

\* The sum of a sequence of numbers.
RECURSIVE SumSeq(_)
SumSeq(counts) == IF counts = <<>> THEN 0 ELSE Head(counts) + SumSeq(Tail(counts))

\* The summary route, web_server.py line 49: get_summary gives the list of
\* the records that are in the dict.
SummarySnapshot ==
    /\ reader.pc = "idle"
    /\ reader' = [NoReader EXCEPT
                    !.pc = "summary_list",
                    !.oids = [i \in 1..Len(errors) |-> errors[i].oid]]
    /\ UNCHANGED <<pipeVars, aggVars, valVars, lifeVars, monitoring, thread, browser_log,
                   emitted, orphans>>

\* Lines 52-60: the loop that lists the records, each with its count.  The
\* aggregate of this specification holds one record at most.
SummaryList ==
    /\ reader.pc = "summary_list"
    /\ reader' = [reader EXCEPT
                    !.pc = "summary_sum",
                    !.listed = [i \in 1..Len(reader.oids) |->
                                   Object(reader.oids[i]).count]]
    /\ UNCHANGED <<pipeVars, aggVars, valVars, lifeVars, monitoring, thread, browser_log,
                   emitted, orphans>>

\* Lines 63-64: the totals; the counts are read from the records once more.
SummaryTotals ==
    /\ reader.pc = "summary_sum"
    /\ reader' = [reader EXCEPT
                    !.pc = "summary_done",
                    !.total_errors = Len(reader.oids),
                    !.total_requests =
                        SumSeq([i \in 1..Len(reader.oids) |->
                                   Object(reader.oids[i]).count])]
    /\ UNCHANGED <<pipeVars, aggVars, valVars, lifeVars, monitoring, thread, browser_log,
                   emitted, orphans>>

\* Lines 69-78: the response is sent.
SummaryReturn ==
    /\ reader.pc = "summary_done"
    /\ reader' = NoReader
    /\ UNCHANGED <<pipeVars, aggVars, valVars, lifeVars, monitoring, thread, browser_log,
                   emitted, orphans>>

NextConc ==
    \/ \E entry \in Entries : Emit(entry)
    \/ start_monitoring
    \/ MonitorExit
    \/ MainContinue
    \/ MainExit
    \/ \E t \in Threads : PollLogs(t)
    \/ \E t \in Threads : EndLoop(t)
    \/ \E t \in Threads : ThreadResponseReceived(t)
    \/ \E t \in Threads : ThreadGuard(t)
    \/ \E t \in Threads, fetch \in ConcFetches : ThreadValidate(t, fetch)
    \/ \E t \in Threads : ThreadAddError(t)
    \/ \E t \in Threads : ThreadCreate(t)
    \/ \E t \in Threads : ThreadCountLoad(t)
    \/ \E t \in Threads : ThreadCountStore(t)
    \/ \E t \in Threads : ThreadAppend(t)
    \/ \E t \in Threads : ThreadMessage(t)
    \/ \E t \in Threads : ThreadMark(t)
    \/ \E t \in Threads : ThreadCleanup(t)
    \/ \E uri \in Queries : ReaderFind(uri)
    \/ ReaderDetails
    \/ ReaderCount
    \/ ReaderReturn
    \/ SummarySnapshot
    \/ SummaryList
    \/ SummaryTotals
    \/ SummaryReturn

SpecConc == InitConc /\ [][NextConc]_vars

-----------------------------------------------------------------------------
(* Claims about the classifier and the validator (checked under SpecV).    *)

\* The rules of the classifier as the specification words them, stated on
\* positions of the text instead of by a scan.
RuleNonApiPattern(url) ==
    LET u == LowerSeq(url) IN
    \/ \E i \in 1..Len(u) :
          /\ u[i] = "."
          /\ i < Len(u)
          /\ u[i + 1] \in StaticExts
          /\ (i + 1 < Len(u) => u[i + 2] \in {"?", "#"})
    \/ \E i \in 1..Len(u) : \E lit \in { <<"data", ":", "image", "/">>,
                                         <<"data", ":", "text", "/">>,
                                         <<"chrome-extension", ":", "//">>,
                                         <<"moz-extension", ":", "//">> } :
          MatchAt(lit, u, i)
RuleJsonMime(mime) ==
    mime # <<>> /\ \E i \in 1..Len(mime) : Lower(mime[i]) = "json"
RuleStaticMime(mime) ==
    /\ mime # <<>>
    /\ \E i \in 1..Len(mime) : \E k \in 1..Len(StaticMimes) :
          MatchAt(StaticMimes[k], LowerSeq(mime), i)
RuleApiIndicator(url) ==
    \E i \in 1..Len(url) : \E k \in 1..Len(api_indicators) :
        MatchAt(api_indicators[k], LowerSeq(url), i)
RulePageSuffix(url) ==
    /\ url # <<>>
    /\ \/ Lower(url[Len(url)]) = "/"
       \/ /\ Len(url) >= 2
          /\ url[Len(url) - 1] = "."
          /\ Lower(url[Len(url)]) \in {"html", "htm"}

FirstMatchingRule(url, mime) ==
    IF RuleNonApiPattern(url) THEN "not_api"
    ELSE IF RuleJsonMime(mime) THEN "api"
    ELSE IF RuleStaticMime(mime) THEN "not_api"
    ELSE IF RuleApiIndicator(url) THEN "api"
    ELSE IF RulePageSuffix(url) THEN "not_api"
    ELSE "api"

\* C9: the classifier returns the verdict of the first matching rule, in the
\* order non-API pattern, JSON MIME, static MIME, API indicator, page suffix,
\* default API, whatever combination of rules matches.
C9_FirstMatchingRuleWins ==
    cls # "unset" => cls = FirstMatchingRule(call.url, call.mime)

\* C9 witness: a classified call on which rules 1, 2, 3 and 4 all match.
C9_Witness ==
    /\ cls = "not_api"
    /\ RuleNonApiPattern(call.url) /\ RuleApiIndicator(call.url)
    /\ RuleJsonMime(call.mime) /\ RuleStaticMime(call.mime)

C10_Suffix(n) ==
    CASE n = 404 -> " - Not Found"
      [] n = 500 -> " - Internal Server Error"
      [] n = 401 -> " - Unauthorized"
      [] n = 403 -> " - Forbidden"
      [] OTHER -> " - Error"

\* C10: for an exchange the classifier accepts, a status outside [200, 300)
\* gives ok=false, StatusCodeError, isApiTraffic=true and the message
\* "HTTP {status}" plus the suffix of the status, whatever body and MIME are.
C10_StatusOutside2xx ==
    ( /\ verdict # NoVerdict
      /\ cls = "api"
      /\ call.status.num
      /\ (call.status.n < 200 \/ call.status.n >= 300) )
    => verdict = [ok |-> FALSE, kind |-> "STATUS_CODE_ERROR",
                  msg |-> <<"HTTP ", StatusText(call.status.n),
                            C10_Suffix(call.status.n)>>,
                  api |-> TRUE, raised |-> FALSE]

\* C10 witness: status 300 with a valid success body and a JSON MIME type is
\* reported as a status error.
C10_Witness ==
    /\ call.status = Status(300) /\ call.body = ObjSuccess /\ call.mime = MimeJson
    /\ verdict.kind = "STATUS_CODE_ERROR"
    /\ verdict.msg = <<"HTTP ", "300", " - Error">>

\* The first character of a body after its leading whitespace: "" when the
\* body is all whitespace.
C11_FirstNonWs(b) ==
    LET rest == DropWs(b.pre) IN
    IF rest # <<>> THEN Head(rest) ELSE FirstChar(b.kind)

\* C11 (as claimed): an API-classified 2xx exchange with a non-empty body
\* whose first non-whitespace character is neither "{" nor "[" gets ok=true,
\* isApiTraffic=false whenever the MIME type is absent or has no "json".
C11_BodyShapeVeto ==
    ( /\ verdict # NoVerdict
      /\ cls = "api"
      /\ call.status.num /\ 200 <= call.status.n /\ call.status.n < 300
      /\ C11_FirstNonWs(call.body) \notin {"", "{", "["}
      /\ \A i \in 1..Len(call.mime) : Lower(call.mime[i]) # "json" )
    => verdict = [ok |-> TRUE, kind |-> "None", msg |-> <<>>, api |-> FALSE,
                  raised |-> FALSE]

\* A 2xx status.
C12_Is2xx(status) == status.num /\ 200 <= status.n /\ status.n < 300

\* The MIME type is absent or has no "json" in it.
C12_NoJsonMime(mime) == \A i \in 1..Len(mime) : Lower(mime[i]) # "json"

\* The body is a JSON object, possibly behind whitespace and one byte-order
\* mark: what parses to an object, at once or on the retry.
C12_ParsesToObject(b) ==
    /\ b.kind = "object"
    /\ LET rest == DropWs(b.pre) IN
       rest = <<>> \/ (Head(rest) = "bom" /\ DropWs(Tail(rest)) = <<>>)

\* The first present of the fields message, msg, error, as message text.
C12_Extra(obj) ==
    LET present == { f \in {"message", "msg", "error"} : f \in DOMAIN obj }
        first == IF "message" \in present THEN "message"
                 ELSE IF "msg" \in present THEN "msg" ELSE "error"
    IN  IF present = {} THEN <<>>
        ELSE << ", " \o first \o "=", obj[first].s >>

\* What the claim says of verdict v for the parsed object obj.
C12_Says(v, obj) ==
    IF "code" \in DOMAIN obj /\ obj["code"].t = "str"
                             /\ obj["code"].s \in {"SUCCESS", "00000"}
    THEN v.ok
    ELSE /\ ~v.ok
         /\ v.kind = "RESPONSE_CODE_ERROR"
         /\ v.msg = ( IF "code" \in DOMAIN obj THEN <<"code=", obj["code"].s>>
                      ELSE <<MsgNoCode>> ) \o C12_Extra(obj)

\* C12 (as claimed): for an API-classified 2xx exchange whose body parses to
\* a JSON object the verdict is ok=true exactly when the top-level code is
\* "SUCCESS" or "00000" by exact value, and otherwise ResponseCodeError with
\* the stated message.
C12_CodeDecidesVerdict ==
    ( /\ verdict # NoVerdict
      /\ cls = "api"
      /\ C12_Is2xx(call.status)
      /\ C12_ParsesToObject(call.body) )
    => C12_Says(verdict, call.body.obj)

\* C12 (amended): the same for the exchanges the body-shape veto lets
\* through: the body starts, after whitespace, with "{", or the MIME type
\* has "json" in it.
C12_CodeDecidesVerdictPastVeto ==
    ( /\ verdict # NoVerdict
      /\ cls = "api"
      /\ C12_Is2xx(call.status)
      /\ C12_ParsesToObject(call.body)
      /\ \/ DropWs(call.body.pre) = <<>>
         \/ ~C12_NoJsonMime(call.mime) )
    => C12_Says(verdict, call.body.obj)

\* C12 witness: a numeric code 0 is a failure, reported with its msg field.
C12_Witness ==
    /\ cls = "api"
    /\ call.body = ObjNumZero
    /\ verdict.kind = "RESPONSE_CODE_ERROR"
    /\ verdict.msg = <<"code=", "0", ", msg=", "zero">>

\* The body parses to a JSON value, at once or behind whitespace and one
\* byte-order mark on the retry.
C13_Parses(b) ==
    /\ b.kind \in {"object", "array", "scalar"}
    /\ LET rest == DropWs(b.pre) IN
       rest = <<>> \/ (Head(rest) = "bom" /\ DropWs(Tail(rest)) = <<>>)

\* What the claim says of verdict v for the unparseable body b: the body
\* that starts, whitespace trimmed, with "<" is no API traffic, every other
\* one is a format error.
C13_Says(v, b) ==
    IF DropWs(b.pre) = <<>> /\ b.kind = "html"
    THEN v = [ok |-> TRUE, kind |-> "None", msg |-> <<>>, api |-> FALSE,
              raised |-> FALSE]
    ELSE ~v.ok /\ v.kind = "FORMAT_ERROR" /\ v.api /\ ~v.raised

\* C13 (as claimed): the unparseable body of an API-classified 2xx exchange
\* gives ok=true, isApiTraffic=false when it starts with "<" and FormatError
\* with isApiTraffic=true in every other case.
C13_ParseFailureVerdict ==
    ( /\ verdict # NoVerdict
      /\ cls = "api"
      /\ C12_Is2xx(call.status)
      /\ ~C13_Parses(call.body) )
    => C13_Says(verdict, call.body)

\* C13 (amended): the same for the exchanges the body-shape veto lets
\* through: the body starts, after whitespace, with "{" or "[", or the MIME
\* type has "json" in it.
C13_ParseFailureVerdictPastVeto ==
    ( /\ verdict # NoVerdict
      /\ cls = "api"
      /\ C12_Is2xx(call.status)
      /\ ~C13_Parses(call.body)
      /\ \/ C11_FirstNonWs(call.body) \in {"{", "["}
         \/ ~C12_NoJsonMime(call.mime) )
    => C13_Says(verdict, call.body)

\* C13 witness: an HTML body served as application/json fails to parse and
\* is taken for a page.
C13_Witness ==
    /\ cls = "api"
    /\ call.status = Status(200)
    /\ call.mime = MimeJson
    /\ call.body = Body(<<"ws">>, "html", "", NoFields)
    /\ verdict.ok /\ ~verdict.api

\* What the claim says of verdict v for the parsed body b, an array or a
\* value that is neither object nor array.
C14_Says(v, b) ==
    IF b.kind = "array"
    THEN v = [ok |-> TRUE, kind |-> "None", msg |-> <<>>, api |-> TRUE,
              raised |-> FALSE]
    ELSE /\ ~v.ok /\ v.kind = "FORMAT_ERROR" /\ v.api /\ ~v.raised
         /\ v.msg # <<>> /\ v.msg[Len(v.msg)] = b.ty

\* C14 (as claimed): for an API-classified 2xx exchange whose body parses, an
\* array is accepted (ok=true, isApiTraffic=true) and a value that is neither
\* object nor array is a FormatError naming its type.
C14_ShapeDecidesVerdict ==
    ( /\ verdict # NoVerdict
      /\ cls = "api"
      /\ C12_Is2xx(call.status)
      /\ C13_Parses(call.body)
      /\ call.body.kind \in {"array", "scalar"} )
    => C14_Says(verdict, call.body)

\* C14 (amended): the same for the exchanges the body-shape veto lets
\* through: the body starts, after whitespace, with "[", or the MIME type
\* has "json" in it.
C14_ShapeDecidesVerdictPastVeto ==
    ( /\ verdict # NoVerdict
      /\ cls = "api"
      /\ C12_Is2xx(call.status)
      /\ C13_Parses(call.body)
      /\ call.body.kind \in {"array", "scalar"}
      /\ \/ C11_FirstNonWs(call.body) = "["
         \/ ~C12_NoJsonMime(call.mime) )
    => C14_Says(verdict, call.body)

\* C14 witness: a number served as application/json is a FormatError that
\* names the type int.
C14_Witness ==
    /\ cls = "api"
    /\ call.mime = MimeJson
    /\ call.body = Body(<<>>, "scalar", "int", NoFields)
    /\ verdict.kind = "FORMAT_ERROR"
    /\ verdict.msg = <<MsgNotObject, "int">>


\* C15: an API-classified exchange with a 2xx status and an empty body is a
\* FormatError with the empty-body message and isApiTraffic=true, whatever
\* its MIME type: the veto never re-classifies an empty body.
C15_EmptyBodyIsFormatError ==
    ( /\ verdict # NoVerdict
      /\ cls = "api"
      /\ C12_Is2xx(call.status)
      /\ call.body = EmptyBody )
    => verdict = [ok |-> FALSE, kind |-> "FORMAT_ERROR", msg |-> <<MsgEmptyBody>>,
                  api |-> TRUE, raised |-> FALSE]

\* C15 witness: an empty body with status 200 and the MIME type text/plain,
\* which the veto would re-classify, is a FormatError.
C15_Witness ==
    /\ cls = "api"
    /\ call.status = Status(200)
    /\ call.mime = MimePlain
    /\ call.body = EmptyBody
    /\ verdict.kind = "FORMAT_ERROR"
    /\ verdict.api

\* The verdict v is one that validate_response returned.
C31_Returned(v) == v # NoVerdict /\ ~v.raised

\* The message of v is the empty string.
C31_EmptyMessage(v) == \A i \in 1..Len(v.msg) : v.msg[i] = ""

\* C31: every verdict validate_response returns is well-formed: with
\* ok=false an error kind is set, the message is not empty and
\* isApiTraffic=true; with ok=true the error kind is None and the message
\* is empty; with isApiTraffic=false ok=true.
C31_VerdictWellFormed ==
    C31_Returned(verdict)
    => /\ ~verdict.ok
          => /\ verdict.kind \in {"STATUS_CODE_ERROR", "FORMAT_ERROR",
                                  "RESPONSE_CODE_ERROR"}
             /\ ~C31_EmptyMessage(verdict)
             /\ verdict.api
       /\ verdict.ok
          => /\ verdict.kind = "None"
             /\ C31_EmptyMessage(verdict)
       /\ ~verdict.api => verdict.ok

\* C31 witness: validate_response has returned the verdict of an exchange
\* that the classifier took for an API request and the body checks skipped
\* under a 2xx status: ok=true with isApiTraffic=false.
C31_Witness ==
    /\ C31_Returned(verdict)
    /\ cls = "api"
    /\ C12_Is2xx(call.status)
    /\ verdict.ok
    /\ ~verdict.api
    /\ verdict.kind = "None"

-----------------------------------------------------------------------------
(* Claims about the aggregator (checked under SpecAgg).                    *)

\* The failures recorded whose URL normalizes to path, in arrival order.
RecordedFor(path) ==
    SelectSeq(recorded, LAMBDA r : _extract_uri_path(r.uri) = path)

\* C3: for every path, the record's count is the number of failures recorded
\* for the path and the length of its occurrence list, and the occurrences
\* are those failures in arrival order.
C3_CountAndOrder ==
    \A i \in 1..Len(errors) :
        LET rec == errors[i].rec
            mine == RecordedFor(errors[i].key)
        IN  /\ rec.count = Len(mine)
            /\ rec.count = Len(rec.details)
            /\ \A k \in 1..Len(rec.details) :
                  /\ k <= Len(mine)
                  /\ rec.details[k] =
                        ErrorDetail(mine[k].error_message, mine[k].status_code,
                                    mine[k].response_body, mine[k].request_method)

\* C3 witness: a record with three different occurrences.
C3_Witness ==
    \E i \in 1..Len(errors) :
        /\ errors[i].rec.count = 3
        /\ errors[i].rec.details[1] # errors[i].rec.details[2]
        /\ errors[i].rec.details[2] # errors[i].rec.details[3]

\* The path of a URL as the specification words it: what remains when the
\* scheme, the host, the query and the fragment are taken away.  A URL that
\* does not parse is its own key (section 4.5).
C4_Path(url) ==
    IF url = UrlBadHost THEN url
    ELSE LET start == IF \E i \in 1..Len(url) : url[i] = "//"
                      THEN (CHOOSE i \in 1..Len(url) : url[i] = "//") + 2
                      ELSE 1
             cut == { i \in start..Len(url) : url[i] \in {"?", "#"} }
             stop == IF cut = {} THEN Len(url)
                     ELSE (CHOOSE i \in cut : \A j \in cut : i <= j) - 1
         IN SubSeq(url, start, stop)

\* C4: the aggregate holds exactly one record per distinct normalized path
\* of the recorded URLs, and each record's uri is the key it is stored under.
C4_OneRecordPerPath ==
    /\ { errors[i].key : i \in 1..Len(errors) }
          = { C4_Path(recorded[k].uri) : k \in 1..Len(recorded) }
    /\ \A i, j \in 1..Len(errors) : errors[i].key = errors[j].key => i = j
    /\ \A i \in 1..Len(errors) : errors[i].rec.uri = errors[i].key
    /\ C4_Path(UrlUsers) = <<"/", "api", "/", "v1", "/", "users">>

\* C4 witness: two URLs that differ in scheme, host, query and fragment were
\* recorded and share the one record.
C4_Witness ==
    /\ \E k \in 1..Len(recorded) : recorded[k].uri = UrlUsers
    /\ \E k \in 1..Len(recorded) : recorded[k].uri = UrlUsersB
    /\ Len(errors) = 1
    /\ errors[1].key = <<"/", "api", "/", "v1", "/", "users">>
    /\ errors[1].rec.count = 3

\* The messages of a summary: its parts between the " | " separators.
RECURSIVE C5_Split(_)
C5_Split(msg) ==
    IF ~Contains(<<" | ">>, msg) THEN <<msg>>
    ELSE <<UpTo(msg, {" | "})>> \o C5_Split(Tail(From(msg, {" | "})))

C5_Times(m, parts) == Cardinality({k \in 1..Len(parts) : parts[k] = m})

\* C5 (as claimed): every message recorded for a path appears in the record's
\* summary message exactly once.
C5_EachMessageOnce ==
    \A i \in 1..Len(errors) :
        LET mine == RecordedFor(errors[i].key) IN
        \A k \in 1..Len(mine) :
            C5_Times(mine[k].error_message, C5_Split(errors[i].rec.error_message)) = 1


\* C17: a record that stays in the aggregate keeps the error_type and the
\* status_code it was created with; a later failure for its path leaves the
\* record as it is but for the count, which grows by one, the occurrence
\* list, which gets one more element, and the summary message, which is the
\* old one or the old one with " | " and the new message after it.
C17_KindAndStatusFixed ==
    [][ \A i \in 1..Len(errors) :
          (Len(errors') >= i /\ errors'[i].key = errors[i].key)
          => LET old == errors[i].rec
                 new == errors'[i].rec
             IN  /\ new.error_type = old.error_type
                 /\ new.status_code = old.status_code
                 /\ \/ new = old
                    \/ /\ new.count = old.count + 1
                       /\ Len(new.details) = Len(old.details) + 1
                       /\ SubSeq(new.details, 1, Len(old.details)) = old.details
                       /\ LET m == new.details[Len(new.details)].error_message
                          IN  new = [old EXCEPT
                                       !.count = new.count,
                                       !.details = new.details,
                                       !.error_message =
                                           IF m = old.error_message THEN @
                                           ELSE @ \o <<" | ">> \o m] ]_vars

\* C17 witness: a record created by a 404 holds a second occurrence with
\* status 200 and another kind of message, and still says 404 and
\* STATUS_CODE_ERROR.
C17_Witness ==
    \E i \in 1..Len(errors) :
        /\ errors[i].rec.count = 2
        /\ errors[i].rec.error_type = "STATUS_CODE_ERROR"
        /\ errors[i].rec.status_code = Status(404)
        /\ errors[i].rec.details[2].status_code = Status(200)
        /\ errors[i].rec.details[2].error_message = MsgCode9999


\* Every record of the aggregate is still there after the step, under its
\* key, with a count that is no smaller and an occurrence list that has the
\* old one as its beginning.
C19_Grows ==
    \A i \in 1..Len(errors) :
        /\ Len(errors') >= i
        /\ errors'[i].key = errors[i].key
        /\ errors'[i].rec.count >= errors[i].rec.count
        /\ Len(errors'[i].rec.details) >= Len(errors[i].rec.details)
        /\ SubSeq(errors'[i].rec.details, 1, Len(errors[i].rec.details))
              = errors[i].rec.details

\* C19: a step that is no clear removes no record and only lets counts and
\* occurrence lists grow; clear leaves the mapping empty.
C19_RemovedOnlyByClear ==
    [][ IF Clear THEN errors' = <<>> ELSE C19_Grows ]_vars

\* C19 witness: the first record has outlived the creation of a second one
\* and has grown since it was created.
C19_Witness ==
    /\ Len(errors) = 2
    /\ errors[1].rec.count = 2
    /\ Len(errors[1].rec.details) = 2
    /\ errors[2].rec.count = 1
    /\ recorded[2].uri = UrlOrders

-----------------------------------------------------------------------------
(* Claims about the pipeline (checked under Spec).                         *)

Range(q) == { q[i] : i \in 1..Len(q) }

\* C1: handling a LoadingFinished event fetches no body, validates nothing
\* and leaves the pending table, the processed ids and the aggregate as they
\* are when the id has no pending entry, and also when the id is already
\* finalized.
C1_LoadingFinishedNoOp ==
    [][ \A request_id \in Ids \cup {NoId} :
          ( /\ did'.id = request_id
            /\ \/ request_id \notin DOMAIN response_data
               \/ request_id \in processed_request_ids
            /\ \E fetch \in Fetches : HandleLoadingFinished(request_id, fetch) )
          => /\ did'.fetches = 0
             /\ did'.validations = 0
             /\ UNCHANGED <<response_data, processed_request_ids, errors, recorded>>
      ]_vars

\* C1 witness: a LoadingFinished was handled as a no-op for an id that is
\* finalized and has a pending entry again.
C1_Witness ==
    /\ did.out = "noop"
    /\ did.id \in processed_request_ids
    /\ did.id \in DOMAIN response_data

\* C2: handling a completed exchange whose verdict is isApiTraffic=false
\* leaves the aggregate as it is.
C2_NonApiLeavesAggregate ==
    [][ \A request_id \in Ids, fetch \in Fetches :
          ( /\ did'.id = request_id
            /\ request_id \in DOMAIN response_data
            /\ request_id \notin processed_request_ids
            /\ LET v == Validation(response_data[request_id],
                                   IF fetch.ok THEN fetch.body ELSE EmptyBody)
               IN ~v.raised /\ ~v.api
            /\ HandleLoadingFinished(request_id, fetch) )
          => UNCHANGED <<errors, recorded>>
      ]_vars

\* C2 witness: a non-API exchange was handled while the aggregate held a
\* record.
C2_Witness ==
    /\ did.out = "nonapi"
    /\ Len(errors) = 1
    /\ errors[1].rec.count = 1

\* C8 (as claimed): a malformed entry that is followed by a well-formed event
\* in its batch yields no event and leaves the rest of the batch to be
\* handled.
C8_MalformedEntrySkipped ==
    [][ \A cause \in {"badjson", "nokey", "nomethod", "notdict"} :
          ( HandleMalformed(cause) /\ "event" \in Range(Tail(logs)) )
          => /\ logs' = Tail(logs)
             /\ UNCHANGED <<response_data, processed_request_ids, errors>>
      ]_vars


\* The body fetch of lines 131-143 having failed.
C16_FetchFailed == [ok |-> FALSE, body |-> EmptyBody]
\* The body fetch having given the empty body.
C16_FetchedEmpty == [ok |-> TRUE, body |-> EmptyBody]

\* C16: a handled LoadingFinished event fetches the body at most once and a
\* no-op never fetches; when the fetch fails for a pending id that is not
\* finalized, the step is the one an empty body gives, the pass goes on with
\* the next entry, the id is finalized and its pending entry is removed.
C16_FetchFailureDegradesToEmpty ==
    [][ \A request_id \in Ids \cup {NoId} :
          /\ ( /\ did'.id = request_id
               /\ \E fetch \in Fetches : HandleLoadingFinished(request_id, fetch) )
             => /\ did'.fetches <= 1
                /\ did'.out = "noop" => did'.fetches = 0
          /\ ( /\ did'.id = request_id
               /\ request_id \in DOMAIN response_data
               /\ request_id \notin processed_request_ids
               /\ HandleLoadingFinished(request_id, C16_FetchFailed) )
             => /\ HandleLoadingFinished(request_id, C16_FetchedEmpty)
                /\ pc' = "loop"
                /\ logs' = Tail(logs)
                /\ request_id \in processed_request_ids'
                /\ request_id \notin DOMAIN response_data' ]_vars


\* C24: a ResponseReceived event with an empty requestId or an empty url
\* leaves the pending table, the processed ids and the aggregate as they
\* are, and so does a LoadingFinished event with an empty requestId.
C24_EmptyEventsDiscarded ==
    [][ /\ \A e \in EmptyEvents :
             ( /\ did'.id = e.id
               /\ HandleResponseReceived(e.id, e.url, e.status, e.mime) )
             => UNCHANGED <<response_data, processed_request_ids, errors, recorded>>
        /\ ( /\ did'.id = NoId
             /\ \E fetch \in Fetches : HandleLoadingFinished(NoId, fetch) )
           => UNCHANGED <<response_data, processed_request_ids, errors, recorded>>
      ]_vars

\* C24 witness: a ResponseReceived event for r1 was discarded while r2 was
\* pending and r1 was not.
C24_Witness ==
    /\ did = Did("r1", "discarded", 0, 0)
    /\ DOMAIN response_data = {"r2"}


\* C23: the aggregate changes only when a LoadingFinished event is handled
\* for an id that has a pending entry, put there by a ResponseReceived event
\* handled before; the change is one occurrence with the url and the status
\* of that entry.  An entry that stays pending adds nothing.
C23_OccurrenceNeedsBothEvents ==
    [][ (errors' # errors \/ recorded' # recorded)
        => \E request_id \in Ids :
              /\ request_id \in DOMAIN response_data
              /\ did' = Did(request_id, "fail", 1, 1)
              /\ \E fetch \in Fetches : HandleLoadingFinished(request_id, fetch)
              /\ Len(recorded') = Len(recorded) + 1
              /\ recorded'[Len(recorded')].uri = response_data[request_id].url
              /\ recorded'[Len(recorded')].status_code = response_data[request_id].status
              /\ errors' = add_error(errors, response_data[request_id].url,
                                     recorded'[Len(recorded')].error_type,
                                     recorded'[Len(recorded')].error_message,
                                     response_data[request_id].status,
                                     recorded'[Len(recorded')].response_body, "GET")
      ]_vars

\* C23 witness: r1 was completed and recorded; r2 is pending at the end of
\* the pass and the aggregate holds the one occurrence of r1.
C23_Witness ==
    /\ pc = "idle"
    /\ DOMAIN response_data = {"r2"}
    /\ processed_request_ids = {"r1"}
    /\ response_data["r2"].status = Status(404)
    /\ Len(recorded) = 1
    /\ Len(errors) = 1
    /\ errors[1].rec.count = 1


\* The pending entry a ResponseReceived event stores.
C25_Entry(r) ==
    [url |-> r.url, status |-> r.status, mimeType |-> r.mime, request_method |-> "GET"]

\* C25: a ResponseReceived event for an id, pending or not, leaves the one
\* entry of the id holding the data of this event; the LoadingFinished event
\* that follows for a pending id that is not finalized validates once, the
\* data of the entry as it is then, and removes the entry.
C25_OverwriteThenOneExchange ==
    [][ /\ \A request_id \in Ids, r \in Responses :
             ( /\ did'.id = request_id
               /\ HandleResponseReceived(request_id, r.url, r.status, r.mime) )
             => /\ DOMAIN response_data' = DOMAIN response_data \cup {request_id}
                /\ response_data'[request_id] = C25_Entry(r)
        /\ \A request_id \in Ids :
             ( /\ did'.id = request_id
               /\ request_id \in DOMAIN response_data
               /\ request_id \notin processed_request_ids
               /\ \E fetch \in Fetches : HandleLoadingFinished(request_id, fetch) )
             => /\ did'.validations = 1
                /\ did'.out \in {"nonapi", "pass", "fail"}
                /\ did'.out = "fail"
                      => /\ recorded'[Len(recorded')].uri = response_data[request_id].url
                         /\ recorded'[Len(recorded')].status_code
                               = response_data[request_id].status
                /\ request_id \notin DOMAIN response_data'
      ]_vars


\* C28: handling LoadingFinished for an id that is pending and not finalized
\* leaves the id finalized and without a pending entry, whatever the verdict
\* and also when the validation raises; the pass goes on with the next
\* entry, and a handling that raises leaves the aggregate as it is.
C28_AlwaysFinalized ==
    [][ \A request_id \in Ids :
          ( /\ did'.id = request_id
            /\ request_id \in DOMAIN response_data
            /\ request_id \notin processed_request_ids
            /\ \E fetch \in Fetches : HandleLoadingFinished(request_id, fetch) )
          => /\ request_id \in processed_request_ids'
             /\ request_id \notin DOMAIN response_data'
             /\ pc' = "loop"
             /\ logs' = Tail(logs)
             /\ did'.out = "raised" => UNCHANGED <<errors, recorded>>
      ]_vars

\* C30: no requestId is both finalized and pending.
C30_FinalizedNeverPending ==
    processed_request_ids \cap DOMAIN response_data = {}

-----------------------------------------------------------------------------
(* Claims about the threads (checked under SpecConc).                      *)

\* C6 (as claimed): the record a query handler reads is never mid-mutation:
\* the count of its response equals the number of occurrences it read for
\* the record.
C6_ReaderSeesWholeRecord ==
    (reader.pc = "done" /\ reader.found) => reader.count = Len(reader.details)

\* The positions of a thread inside process_logs.
InPass ==
    {"loop", "fetch", "add_error", "create", "add_detail", "count_store",
     "append", "message", "mark", "cleanup"}

\* C7 (as claimed): at no time do two executions of process_logs overlap:
\* at most one thread is inside the correlation pipeline.
C7_OnePipelineExecution ==
    Cardinality({ t \in DOMAIN thread : thread[t].pc \in InPass }) <= 1


\* C20: a response of the summary route is a snapshot: total_errors is the
\* number of endpoints it lists and total_requests the sum of the counts it
\* lists, also while failures are being recorded on other threads.
C20_SummaryIsSnapshot ==
    reader.pc = "summary_done"
    => /\ reader.total_errors = Len(reader.listed)
       /\ reader.total_requests = SumSeq(reader.listed)

\* The positions of a thread that has validated the exchange of its
\* request_id as a failure and passed it to add_error.
C27_Recording ==
    {"create", "add_detail", "count_store", "append", "message", "mark", "cleanup"}

\* C27: no requestId is validated and recorded by both threads: two threads
\* that each have recorded a failure for the exchange they are handling
\* handle exchanges with different ids.
C27_EachIdRecordedOnce ==
    \A t1, t2 \in DOMAIN thread :
        ( /\ t1 # t2
          /\ thread[t1].pc \in C27_Recording
          /\ thread[t2].pc \in C27_Recording
          /\ thread[t1].v.api /\ ~thread[t1].v.ok
          /\ thread[t2].v.api /\ ~thread[t2].v.ok )
        => thread[t1].request_id # thread[t2].request_id

-----------------------------------------------------------------------------
(* The detail lookup of the web server (src/src/web_server.py,             *)
(* get_error_details) on an aggregate filled by add_error calls.           *)

\* A URL whose path is the end of the path of UrlUsers.
UrlV1Users == <<"https", ":", "//", "host", "/", "v1", "/", "users">>

QueryUrls == {UrlUsers, UrlV1Users, UrlOrders}

\* The uri of a request to /api/error-details/<path:uri>: a path, a path
\* with its slashes percent-encoded, a path without its first slash, a URL.
DetailQueries ==
    { <<"/", "v1", "/", "users">>,
      <<"%2F", "api", "%2F", "v1", "%2F", "users">>,
      <<"api", "/", "orders">>,
      UrlV1Users,
      <<"/", "nothing">> }

\* urllib.parse.unquote on the escapes of the model.
unquote(uri) == [k \in 1..Len(uri) |-> IF uri[k] = "%2F" THEN "/" ELSE uri[k]]

NoAnswer == [query |-> <<>>, status |-> 0, uri |-> <<>>, count |-> 0, details |-> <<>>]

\* get_error_details, lines 90-141: the response for the first record, in
\* the order of the dict, that passes one of the tests of lines 107-110, or
\* the 404 response when there is none.
get_error_details(errs, uri) ==
    LET decoded_uri == unquote(uri)
        normalized_uri == _extract_uri_path(decoded_uri)
        hits == { i \in 1..Len(errs) :
                     Matches(errs[i].rec.uri, decoded_uri, normalized_uri) }
    IN  IF hits = {}
        THEN [query |-> uri, status |-> 404, uri |-> <<>>, count |-> 0,
              details |-> <<>>]
        ELSE LET record == errs[CHOOSE i \in hits : \A j \in hits : i <= j].rec
             IN  [query |-> uri, status |-> 200, uri |-> record.uri,
                  count |-> record.count, details |-> record.details]

InitQuery ==
    /\ AggIdle
    /\ PipeIdle
    /\ ValIdle
    /\ LifeIdle
    /\ monitoring = FALSE
    /\ thread = <<>>
    /\ reader = NoAnswer
    /\ browser_log = <<>>
    /\ emitted = 0
    /\ orphans = <<>>

\* One request to the detail endpoint.
GetErrorDetails(uri) ==
    /\ reader' = get_error_details(errors, uri)
    /\ UNCHANGED <<pipeVars, aggVars, valVars, lifeVars, monitoring, thread, browser_log,
                   emitted, orphans>>

NextQuery ==
    \/ \E uri \in QueryUrls, f \in Failures : AddError(uri, f)
    \/ \E uri \in DetailQueries : GetErrorDetails(uri)

SpecQuery == InitQuery /\ [][NextQuery]_vars

-----------------------------------------------------------------------------
(* Claims about the detail lookup (checked under SpecQuery).               *)

\* The stored paths of the aggregate.
C18_Paths == { errors[i].rec.uri : i \in 1..Len(errors) }

\* The stored paths one of which is the end of the other, with p.
C18_SuffixMatches(p) ==
    { u \in C18_Paths : \/ p # <<>> /\ EndsWith(u, p)
                        \/ u # <<>> /\ EndsWith(p, u) }

\* C18: the detail lookup answers with the record whose path is the query
\* when there is one, else with the record whose path is the normalized
\* query when there is one, else with a record that matches by suffix, else
\* with 404, whatever the order in which the records were inserted.
C18_MatchKindsInOrder ==
    [][ \A q \in DetailQueries :
          (GetErrorDetails(q) /\ reader'.query = q)
          => LET decoded_uri == unquote(q)
                 normalized_uri == _extract_uri_path(decoded_uri)
             IN  IF decoded_uri \in C18_Paths
                 THEN reader'.status = 200 /\ reader'.uri = decoded_uri
                 ELSE IF normalized_uri \in C18_Paths
                 THEN reader'.status = 200 /\ reader'.uri = normalized_uri
                 ELSE IF C18_SuffixMatches(normalized_uri) # {}
                 THEN /\ reader'.status = 200
                      /\ reader'.uri \in C18_SuffixMatches(normalized_uri)
                 ELSE reader'.status = 404 ]_vars


-----------------------------------------------------------------------------
(* The report (src/src/error_summarizer.py, _generate_report_content).     *)
(* A report is the sequence of its lines, a line the sequence of its       *)
(* parts; the Chinese literals are given by code point.                    *)

RptTitle    == "API U+9519 U+8BEF U+6C47 U+603B U+62A5 U+544A"
RptStart    == "U+542F U+52A8 U+65F6 U+95F4: "
RptCurrent  == "U+5F53 U+524D U+65F6 U+95F4: "
RptRuntime  == "U+8FD0 U+884C U+65F6 U+957F: "
RptNone     == "U+672A U+53D1 U+73B0 U+4EFB U+4F55 U+9519 U+8BEF U+3002"
RptFound    == "U+5171 U+53D1 U+73B0 "
RptFoundEnd == " U+4E2A U+4E0D U+540C U+7684 API U+9519 U+8BEF U+FF1A"
RptBorder   == "=================================================="
RptUri      == "URI: "
RptType     == "U+9519 U+8BEF U+7C7B U+578B: "
RptMessage  == "U+9519 U+8BEF U+5185 U+5BB9: "
RptStatus   == "U+72B6 U+6001 U+7801: "
RptCount    == "U+9519 U+8BEF U+6B21 U+6570: "

\* _format_runtime, lines 251-261.
_format_runtime(total_seconds) ==
    LET hours == total_seconds \div 3600
        minutes == (total_seconds % 3600) \div 60
        seconds == total_seconds % 60
    IN  IF hours > 0
        THEN <<hours, "U+5C0F U+65F6", minutes, "U+5206 U+949F", seconds, "U+79D2">>
        ELSE IF minutes > 0
        THEN <<minutes, "U+5206 U+949F", seconds, "U+79D2">>
        ELSE <<seconds, "U+79D2">>

\* The parts of the paths of the model in the order of their first characters.
PathParts == <<"/", "api", "orders", "users", "v1">>
PartRank(t) == CHOOSE k \in 1..Len(PathParts) : PathParts[k] = t

\* a < b for two strings, part by part.
RECURSIVE StrLess(_, _)
StrLess(a, b) ==
    IF b = <<>> THEN FALSE
    ELSE IF a = <<>> THEN TRUE
    ELSE IF Head(a) = Head(b) THEN StrLess(Tail(a), Tail(b))
    ELSE PartRank(Head(a)) < PartRank(Head(b))

\* The items left in the order of the dict.
SortedItems_Unsorted(errs) == errs

\* sorted(self.errors.items()), line 228: the items by ascending key.
RECURSIVE SortedItems(_)
SortedItems(errs) ==
    IF errs = <<>> THEN <<>>
    ELSE LET least == CHOOSE i \in 1..Len(errs) :
                         \A j \in 1..Len(errs) : j # i => StrLess(errs[i].key, errs[j].key)
         IN  <<errs[least]>>
             \o SortedItems([k \in 1..Len(errs) - 1 |->
                                IF k < least THEN errs[k] ELSE errs[k + 1]])

\* A value that Python takes as true in `if record.status_code` (line 233):
\* a number other than 0; None is not.
Truthy(status_code) == status_code.num /\ status_code.n # 0

\* Lines 229-237: the block of one record.
ReportBlock(record) ==
    << <<RptBorder>>,
       <<RptUri, record.uri>>,
       <<RptType, record.error_type>>,
       <<RptMessage, record.error_message>> >>
    \o (IF Truthy(record.status_code)
        THEN << <<RptStatus, StatusText(record.status_code.n)>> >> ELSE <<>>)
    \o (IF record.count > 1 THEN << <<RptCount, record.count>> >> ELSE <<>>)
    \o << <<RptBorder>>, <<>> >>

RECURSIVE ReportBlocks(_)
ReportBlocks(items) ==
    IF items = <<>> THEN <<>>
    ELSE ReportBlock(Head(items).rec) \o ReportBlocks(Tail(items))

\* ErrorSummarizer._generate_report_content with the clock at now.
_generate_report_content(errs, start_time, now) ==
    << <<RptTitle>>,
       <<RptStart, start_time>>,
       <<RptCurrent, now>>,
       <<RptRuntime>> \o _format_runtime(now - start_time),
       <<>> >>
    \o (IF errs = <<>>
        THEN << <<RptNone>> >>
        ELSE << <<RptFound, Len(errs), RptFoundEnd>>, <<>> >>
             \o ReportBlocks(SortedItems(errs)))


-----------------------------------------------------------------------------
(* The report specification: add_error calls, and reports generated from   *)
(* the aggregate at different times.                                       *)

\* ErrorSummarizer.start_time and the values of the clock, in seconds.
StartTime == 0
Times == {59, 61, 3725}

ReportUrls == {UrlOrders, UrlUsers, UrlV1Users}

\* A failure with a status, one of an event without a status
\* (api_interceptor.py line 96 puts 0 in) and one passed to add_error
\* without a status code (None).
ReportFailures ==
    { [error_type |-> "STATUS_CODE_ERROR", error_message |-> MsgNotFound,
       status_code |-> Status(404), response_body |-> EmptyBody],
      [error_type |-> "STATUS_CODE_ERROR", error_message |-> StatusMessage(0),
       status_code |-> Status(0), response_body |-> EmptyBody],
      [error_type |-> "FORMAT_ERROR", error_message |-> <<MsgEmptyBody>>,
       status_code |-> NonNumericStatus, response_body |-> EmptyBody] }

InitReport ==
    /\ AggIdle
    /\ PipeIdle
    /\ ValIdle
    /\ ConcIdle
    /\ LifeIdle

\* generate_report, lines 270-276: the content is rendered and written.
GenerateReport(now) ==
    /\ report' = _generate_report_content(errors, StartTime, now)
    /\ UNCHANGED <<pipeVars, aggVars, valVars, concVars, driver, interceptor, cleanup>>

NextReport ==
    \/ \E uri \in ReportUrls, f \in ReportFailures : AddError(uri, f)
    \/ \E now \in Times : GenerateReport(now)

SpecReport == InitReport /\ [][NextReport]_vars

-----------------------------------------------------------------------------
(* Claims about the report (checked under SpecReport).                     *)

\* The positions of the lines of rep that begin with tag.
C26_Lines(rep, tag) == { k \in 1..Len(rep) : rep[k] # <<>> /\ rep[k][1] = tag }

\* The seconds a rendered duration stands for.
C26_Seconds(parts) ==
    IF Len(parts) = 6 THEN parts[1] * 3600 + parts[3] * 60 + parts[5]
    ELSE IF Len(parts) = 4 THEN parts[1] * 60 + parts[3]
    ELSE parts[1]

\* The lines of the block of the record with path uri: from its URI line
\* to the border that closes the block.
C26_Block(rep, uri) ==
    LET first == CHOOSE k \in C26_Lines(rep, RptUri) : rep[k][2] = uri
        last == CHOOSE k \in C26_Lines(rep, RptBorder) :
                    k > first /\ \A j \in C26_Lines(rep, RptBorder) : j > first => k <= j
    IN  { rep[k] : k \in first..last }

\* A record has a status code when its status_code is neither None nor the
\* 0 that stands for an event without one.
C26_HasStatus(record) == record.status_code.num /\ record.status_code.n # 0

\* What the claim says of the report rep rendered from errs at time now.
C26_Says(rep, errs, now) ==
    /\ rep[1] = <<RptTitle>>
    /\ rep[2] = <<RptStart, StartTime>>
    /\ rep[3] = <<RptCurrent, now>>
    /\ rep[4][1] = RptRuntime
    /\ C26_Seconds(Tail(rep[4])) = now - StartTime
    /\ C26_Lines(rep, RptNone) # {} <=> errs = <<>>
    /\ Cardinality(C26_Lines(rep, RptUri)) = Len(errs)
    /\ \A i \in 1..Len(errs) :
          /\ Cardinality({ k \in C26_Lines(rep, RptUri) : rep[k][2] = errs[i].rec.uri }) = 1
          /\ LET block == C26_Block(rep, errs[i].rec.uri)
                 record == errs[i].rec
             IN  /\ <<RptCount, record.count>> \in block <=> record.count > 1
                 /\ (\E line \in block : line # <<>> /\ line[1] = RptCount)
                       <=> record.count > 1
                 /\ (\E line \in block : line # <<>> /\ line[1] = RptStatus)
                       <=> C26_HasStatus(record)
                 /\ C26_HasStatus(record)
                       => <<RptStatus, StatusText(record.status_code.n)>> \in block
    /\ \A k1, k2 \in C26_Lines(rep, RptUri) :
          k1 < k2 => StrLess(rep[k1][2], rep[k2][2])

\* C26: the report says that no errors were found exactly when the aggregate
\* is empty; otherwise it has one block for each record, the blocks by
\* ascending path, the count shown exactly when it is greater than 1 and the
\* status code exactly when the record has one; the header carries the start
\* time, the current time and the elapsed duration in both cases.
C26_ReportContent ==
    [][ \A now \in Times :
          (/\ errors' = errors
           /\ report' # NoReport
           /\ report'[3] = <<RptCurrent, now>>
           /\ GenerateReport(now))
          => C26_Says(report', errors, now) ]_vars

\* C26 witness: a report of two records that were inserted in descending
\* order of path, the first with two occurrences and no status code.
C26_Witness ==
    /\ Len(errors) = 2
    /\ errors[1].key = <<"/", "v1", "/", "users">>
    /\ errors[2].key = <<"/", "api", "/", "orders">>
    /\ errors[1].rec.count = 2
    /\ errors[1].rec.status_code = Status(0)
    /\ report = _generate_report_content(errors, StartTime, 3725)


-----------------------------------------------------------------------------
(* The life of a run (src/main.py, start and cleanup; api_interceptor.py,  *)
(* start_monitoring and stop_monitoring).  The main thread goes through    *)
(* start, at the positions init (nothing created), created (the driver     *)
(* is), intercepting (the interceptor is), running (the monitor thread is  *)
(* started and the main loop runs), finally (line 220) and exited.  The    *)
(* monitor thread goes round check, pass and sleep until it is stopped.    *)
(* A cleanup call in progress is a frame holding the stage it is about to  *)
(* run; signal handlers run on the main thread, on top of what it does.    *)

MaxFrames == 2

LifeUrls == {UrlOrders, UrlUsers}
LifeFailures ==
    { [error_type |-> "STATUS_CODE_ERROR", error_message |-> MsgNotFound,
       status_code |-> Status(404), response_body |-> EmptyBody] }

\* The clock when the report is generated.
LifeNow == 61

\* The order of the three parts of cleanup (main.py lines 226, 231, 237).
cleanup_order_QuitFirst == <<"stop", "quit", "report">>

cleanup_order == <<"stop", "report", "quit">>

\* The stage that follows stage in cleanup; the call returns after the last.
AfterStage(stage) ==
    LET i == CHOOSE k \in 1..Len(cleanup_order) : cleanup_order[k] = stage
    IN  IF i < Len(cleanup_order) THEN cleanup_order[i + 1] ELSE "return"

InitLife ==
    /\ PipeIdle
    /\ AggIdle
    /\ ValIdle
    /\ LifeIdle
    /\ monitoring = FALSE
    /\ thread = [t \in Threads |->
                    Local(IF t = "main" THEN "init" ELSE "unborn", <<>>)]
    /\ reader = NoReader
    /\ browser_log = <<>>
    /\ emitted = 0
    /\ orphans = <<>>

\* The main thread runs start's own code: no cleanup is in progress.
InStart(pos) ==
    /\ thread["main"].pc = pos
    /\ cleanup = <<>>

\* start line 164: the driver is created.
CreateDriver ==
    /\ InStart("init")
    /\ driver' = "running"
    /\ thread' = [thread EXCEPT !["main"] = Local("created", <<>>)]
    /\ UNCHANGED <<pipeVars, aggVars, valVars, report, interceptor, cleanup,
                   monitoring, reader, browser_log, emitted, orphans>>

\* start lines 167-168: the interceptor is created.
CreateInterceptor ==
    /\ InStart("created")
    /\ interceptor' = TRUE
    /\ thread' = [thread EXCEPT !["main"] = Local("intercepting", <<>>)]
    /\ UNCHANGED <<pipeVars, aggVars, valVars, report, driver, cleanup,
                   monitoring, reader, browser_log, emitted, orphans>>

\* start line 190 with start_monitoring (api_interceptor.py lines 175-194):
\* the flag is set and the monitor thread started.
StartMonitoring ==
    /\ InStart("intercepting")
    /\ ~monitoring
    /\ monitoring' = TRUE
    /\ thread' = [thread EXCEPT !["main"] = Local("running", <<>>),
                                !["monitor"] = Local("check", <<>>)]
    /\ UNCHANGED <<pipeVars, aggVars, valVars, lifeVars, reader, browser_log,
                   emitted, orphans>>

\* start lines 154-190: a statement of start raises; the finally clause
\* calls cleanup.
StartFails ==
    /\ \/ InStart("init")
       \/ InStart("created")
       \/ InStart("intercepting")
    /\ thread' = [thread EXCEPT !["main"] = Local("finally", <<>>)]
    /\ cleanup' = <<"stop">>
    /\ UNCHANGED <<pipeVars, aggVars, valVars, report, driver, interceptor,
                   monitoring, reader, browser_log, emitted, orphans>>

\* A pass of process_logs finds a failure and records it.
PassRecords(uri, f) ==
    /\ Len(recorded) < MaxFailures
    /\ errors' = add_error(errors, uri, f.error_type, f.error_message,
                           f.status_code, f.response_body, "GET")
    /\ recorded' = Append(recorded,
                          Recorded(uri, f.error_type, f.error_message,
                                   f.status_code, f.response_body, "GET"))

\* start line 203: a pass of the main loop.
MainPass(uri, f) ==
    /\ InStart("running")
    /\ PassRecords(uri, f)
    /\ UNCHANGED <<pipeVars, valVars, lifeVars, concVars>>

\* start lines 205-209 and 220: the browser is closed, the loop is left and
\* the finally clause calls cleanup.
BrowserClosed ==
    /\ InStart("running")
    /\ thread' = [thread EXCEPT !["main"] = Local("finally", <<>>)]
    /\ cleanup' = <<"stop">>
    /\ UNCHANGED <<pipeVars, aggVars, valVars, report, driver, interceptor,
                   monitoring, reader, browser_log, emitted, orphans>>

\* _signal_handler, main.py lines 58-61: SIGINT or SIGTERM arrives and the
\* handler calls cleanup on the main thread, wherever that is.
Signal ==
    /\ thread["main"].pc # "exited"
    /\ Len(cleanup) < MaxFrames
    /\ cleanup' = <<"stop">> \o cleanup
    /\ UNCHANGED <<pipeVars, aggVars, valVars, report, driver, interceptor, concVars>>

\* The innermost cleanup call goes on to the stage after stage.
Proceed(stage) == cleanup' = <<AfterStage(stage)>> \o Tail(cleanup)

\* cleanup lines 226-227 with stop_monitoring line 198: the flag is cleared.
\* Without an interceptor the part is skipped; without a monitor thread
\* (line 199) nothing is waited for.
CleanupStop ==
    /\ cleanup # <<>>
    /\ Head(cleanup) = "stop"
    /\ IF interceptor
       THEN /\ monitoring' = FALSE
            /\ IF thread["monitor"].pc # "unborn"
               THEN cleanup' = <<"join">> \o Tail(cleanup)
               ELSE Proceed("stop")
       ELSE /\ Proceed("stop")
            /\ UNCHANGED monitoring
    /\ UNCHANGED <<pipeVars, aggVars, valVars, report, driver, interceptor,
                   thread, reader, browser_log, emitted, orphans>>

\* stop_monitoring line 200, join(timeout=2): the monitor thread has ended,
\* or the two seconds are over while it is in a pass.
CleanupJoin ==
    /\ cleanup # <<>>
    /\ Head(cleanup) = "join"
    /\ thread["monitor"].pc \in {"stopped", "pass"}
    /\ Proceed("stop")
    /\ UNCHANGED <<pipeVars, aggVars, valVars, report, driver, interceptor, concVars>>

\* cleanup lines 230-232 with generate_report.
CleanupReport ==
    /\ cleanup # <<>>
    /\ Head(cleanup) = "report"
    /\ report' = _generate_report_content(errors, StartTime, LifeNow)
    /\ Proceed("report")
    /\ UNCHANGED <<pipeVars, aggVars, valVars, driver, interceptor, concVars>>

\* cleanup lines 235-239: the driver, if there is one, is quit.
CleanupQuit ==
    /\ cleanup # <<>>
    /\ Head(cleanup) = "quit"
    /\ driver' = IF driver = "none" THEN "none" ELSE "quit"
    /\ Proceed("quit")
    /\ UNCHANGED <<pipeVars, aggVars, valVars, report, interceptor, concVars>>

\* cleanup returns.  To the finally clause: start returns.  To the signal
\* handler: sys.exit(0) at line 62 raises SystemExit on the main thread, which
\* no except clause catches; inside start's try it runs the finally clause,
\* inside the finally clause it ends the program.
CleanupReturn ==
    /\ cleanup # <<>>
    /\ Head(cleanup) = "return"
    /\ IF thread["main"].pc = "finally"
       THEN /\ thread' = [thread EXCEPT !["main"] = Local("exited", <<>>)]
            /\ cleanup' = <<>>
       ELSE /\ thread' = [thread EXCEPT !["main"] = Local("finally", <<>>)]
            /\ cleanup' = <<"stop">>
    /\ UNCHANGED <<pipeVars, aggVars, valVars, report, driver, interceptor,
                   monitoring, reader, browser_log, emitted, orphans>>

\* monitor_loop line 185: the flag is read; a pass begins or the loop ends.
MonitorCheck_IgnoreFlag ==
    /\ thread["monitor"].pc = "check"
    /\ thread' = [thread EXCEPT !["monitor"] = Local("pass", <<>>)]
    /\ UNCHANGED <<pipeVars, aggVars, valVars, lifeVars, monitoring, reader,
                   browser_log, emitted, orphans>>

MonitorCheck ==
    /\ thread["monitor"].pc = "check"
    /\ thread' = [thread EXCEPT !["monitor"] =
                     Local(IF monitoring THEN "pass" ELSE "stopped", <<>>)]
    /\ UNCHANGED <<pipeVars, aggVars, valVars, lifeVars, monitoring, reader,
                   browser_log, emitted, orphans>>

\* monitor_loop line 187: the pass of the monitor thread records a failure.
MonitorPass(uri, f) ==
    /\ thread["monitor"].pc = "pass"
    /\ PassRecords(uri, f)
    /\ UNCHANGED <<pipeVars, valVars, lifeVars, concVars>>

\* monitor_loop lines 187-188: process_logs returns and the thread sleeps.
MonitorSleep ==
    /\ thread["monitor"].pc = "pass"
    /\ thread' = [thread EXCEPT !["monitor"] = Local("sleep", <<>>)]
    /\ UNCHANGED <<pipeVars, aggVars, valVars, lifeVars, monitoring, reader,
                   browser_log, emitted, orphans>>

\* monitor_loop line 188: the half second is over.
MonitorWake ==
    /\ thread["monitor"].pc = "sleep"
    /\ thread' = [thread EXCEPT !["monitor"] = Local("check", <<>>)]
    /\ UNCHANGED <<pipeVars, aggVars, valVars, lifeVars, monitoring, reader,
                   browser_log, emitted, orphans>>

NextLife ==
    \/ CreateDriver
    \/ CreateInterceptor
    \/ StartMonitoring
    \/ StartFails
    \/ \E uri \in LifeUrls, f \in LifeFailures : MainPass(uri, f)
    \/ BrowserClosed
    \/ Signal
    \/ CleanupStop
    \/ CleanupJoin
    \/ CleanupReport
    \/ CleanupQuit
    \/ CleanupReturn
    \/ MonitorCheck
    \/ \E uri \in LifeUrls, f \in LifeFailures : MonitorPass(uri, f)
    \/ MonitorSleep
    \/ MonitorWake

SpecLife == InitLife /\ [][NextLife]_vars

\* The monitor thread is scheduled, its sleep ends and the log source
\* returns: each step of monitor_loop that can be taken is taken.
SpecLifeFair ==
    /\ SpecLife
    /\ WF_vars(MonitorCheck)
    /\ WF_vars(MonitorSleep)
    /\ WF_vars(MonitorWake)


-----------------------------------------------------------------------------
(* Claims about the life of a run (checked under SpecLife, C22 under       *)
(* SpecLifeFair).                                                          *)

C22_Stopping ==
    /\ thread["monitor"].pc # "unborn"
    /\ ~monitoring

\* C22: the monitor loop reads the flag once per iteration.  Once
\* stop_monitoring has cleared the flag, the flag stays cleared, the loop
\* begins no pass (a thread that is not in a pass is in none afterwards),
\* and, the log source returning and the thread being scheduled, the loop
\* ends; the steps of stopping (clearing the flag, waiting for the thread,
\* the loop reading the cleared flag) leave the aggregate as it is.
C22_CooperativeStop ==
    /\ [][ /\ C22_Stopping => ~monitoring'
           /\ (C22_Stopping /\ thread["monitor"].pc # "pass")
              => thread'["monitor"].pc # "pass"
           /\ (CleanupStop \/ CleanupJoin \/ (C22_Stopping /\ MonitorCheck))
              => /\ errors' = errors
                 /\ recorded' = recorded ]_vars
    /\ C22_Stopping ~> thread["monitor"].pc = "stopped"

\* C22 witness: the loop has ended after stop_monitoring cleared the flag,
\* with the failures recorded before still in the aggregate.
C22_Witness ==
    /\ thread["monitor"].pc = "stopped"
    /\ ~monitoring
    /\ Len(errors) = 2
    /\ Len(recorded) = MaxFailures


\* C29: once cleanup has generated the report no thread adds or changes a
\* record, the monitor thread having ended when stop_monitoring returns, so
\* that the report of a finished run holds every failure recorded.
C29_ReportIsFinal ==
    [][ /\ CleanupJoin => thread["monitor"].pc = "stopped"
        /\ report # NoReport => errors' = errors ]_vars


\* C32: in each run the effects of cleanup happen once, whichever way the
\* run ends: a report that has been generated is not generated again, a
\* driver that has been quit is not quit again, and monitoring that has
\* been stopped is not stopped again.
C32_CleanupOnce ==
    [][ /\ report # NoReport => ~CleanupReport
        /\ driver = "quit" => ~CleanupQuit
        /\ (interceptor /\ ~monitoring /\ thread["monitor"].pc # "unborn")
           => ~CleanupStop ]_vars

=============================================================================
